---- MODULE Spec2Model ----
(***************************************************************************)
(* Content storage and sync engine of veritas-civica                        *)
(* (src/src/lib/content/storage.ts, driven by src/pipeline/cli.ts).         *)
(*                                                                         *)
(* The file system under the storage root is the variable `files`, a map   *)
(* from the paths that exist to their text; the sync-state ledger is the   *)
(* variable `ledger`.  Every public operation of ContentStorage is one      *)
(* action; `call` records the last completed call (arguments, outcome),    *)
(* `prev` summarises the call before it and `pre` is the file system and   *)
(* ledger the last call started from.  `run` holds the local variables of  *)
(* the calls in progress, in the specifications that follow a call step by *)
(* step (SpecSteps, SpecLedger, SpecPages); in Spec every call is one      *)
(* step and `run` stays empty.                                             *)
(*                                                                         *)
(* Strings the code transforms (category names) are sequences of one-      *)
(* character strings; strings the code only compares or copies (slug,      *)
(* title, body, checksum) are TLA+ strings.  Of the fields of RawContent   *)
(* the model keeps category, title, slug, checksum and body: storage.ts    *)
(* reads no other field, and title stands for the remaining metadata.      *)
(***************************************************************************)
EXTENDS Integers, Sequences, FiniteSets, TLC

VARIABLES files, ledger, clock, call, prev, pre, run

vars == <<files, ledger, clock, call, prev, pre, run>>

-----------------------------------------------------------------------------
(* Bounds and input sets *)

\* longest batch handed to diffContent / syncContent
MaxBatch == 2

SYNC_STATE_VERSION == 1

\* the value null of the code, and the absence of the ledger file (ENOENT)
Null == [null |-> TRUE]
NoFile == [enoent |-> TRUE]

CatPeople == <<"P", "e", "o", "p", "l", "e">>
CatCityStatesHyphen == <<"c", "i", "t", "y", "-", "s", "t", "a", "t", "e", "s">>
CatCityStates == <<"C", "i", "t", "y", " ", "S", "t", "a", "t", "e", "s">>

Categories == {CatPeople, CatCityStatesHyphen, CatCityStates}

Slugs == {"marcus-aurelius", "seneca"}

Titles == {"Marcus Aurelius", "Marcus"}

Bodies == {"Roman Emperor", "Stoic philosopher"}

Sources == {"speculum-principum"}

\* message of the error a failing writeFile / mkdir raises
WriteError == "EACCES: permission denied"

-----------------------------------------------------------------------------
(* String helpers *)

UpperCase == <<"A", "B", "C", "D", "E", "F", "G", "H", "I", "J", "K", "L", "M",
               "N", "O", "P", "Q", "R", "S", "T", "U", "V", "W", "X", "Y", "Z">>

LowerCase == <<"a", "b", "c", "d", "e", "f", "g", "h", "i", "j", "k", "l", "m",
               "n", "o", "p", "q", "r", "s", "t", "u", "v", "w", "x", "y", "z">>

Whitespace == {" ", "\t", "\n"}

\* toLowerCase that changes no letter
ToLowerCaseAsIs(s) == s

\* String.prototype.toLowerCase
ToLowerCase(s) ==
    [i \in 1..Len(s) |->
        IF \E k \in 1..26 : UpperCase[k] = s[i]
        THEN LowerCase[CHOOSE k \in 1..26 : UpperCase[k] = s[i]]
        ELSE s[i]]

RECURSIVE ReplaceWhitespace(_)
\* s.replace(/\s+/g, '-'): every maximal run of whitespace becomes one hyphen
ReplaceWhitespace(s) ==
    IF s = <<>> THEN <<>>
    ELSE IF Head(s) \in Whitespace
         THEN IF Len(s) > 1 /\ s[2] \in Whitespace
              THEN ReplaceWhitespace(Tail(s))
              ELSE <<"-">> \o ReplaceWhitespace(Tail(s))
         ELSE <<Head(s)>> \o ReplaceWhitespace(Tail(s))

\* category.toLowerCase().replace(/\s+/g, '-'), for every category of the model
DirNames == [category \in Categories |-> ReplaceWhitespace(ToLowerCase(category))]

\* join(this.basePath, dirName, `${slug}.json`), relative to basePath
getFilePath(category, slug) ==
    LET dirName == DirNames[category]
    IN  [dir |-> dirName, file |-> <<slug, ".json">>]

\* JSON.stringify(content, null, 2): the text of a file holding value v
JSONStringify(v) == [json |-> v]

\* the SyntaxError JSON.parse throws, as the outcome of the call it ends
SyntaxError == [throws |-> "SyntaxError"]

\* the text of a file that is no JSON document
NotJSON == [text |-> "{"]

\* JSON.parse(text)
JSONParse(text) == IF "json" \in DOMAIN text THEN text.json ELSE SyntaxError

\* SHA-256 of the body, on the bodies of the model (hex digest)
generateSHA256Checksum(body) ==
    CASE body = "Roman Emperor" ->
           "873cfedad1e1b6859baac036e557be5ab724f7532e34e8c699e96bac4f90b792"
      [] body = "Stoic philosopher" ->
           "3e2ec59340bf63225794b339f5dc18627637c07ddce0e02aa91a5975a2d625d8"

RawContent(category, slug, title, body) ==
    [category |-> category, title |-> title, slug |-> slug,
     checksum |-> generateSHA256Checksum(body), body |-> body]

\* (category, slug) pairs of the records of the model: two names of one
\* directory, the same slug in two directories, two slugs in one directory
RecordNames ==
    {<<CatPeople, "marcus-aurelius">>, <<CatCityStatesHyphen, "marcus-aurelius">>,
     <<CatCityStates, "marcus-aurelius">>, <<CatPeople, "seneca">>}

Records ==
    {RawContent(n[1], n[2], t, b) : n \in RecordNames, t \in Titles, b \in Bodies}

Batches == UNION {[1..n -> Records] : n \in 0..MaxBatch}

-----------------------------------------------------------------------------
(* Content operations on a file system fs *)

\* writeContent that loses the write
writeContentLost(fs, content) == fs

\* writeContent that leaves the written file alone under the storage root
writeContentAlone(fs, content) ==
    LET filePath == getFilePath(content.category, content.slug)
    IN  [p \in {filePath} |-> JSONStringify(content)]

\* ContentStorage.writeContent: the file system after a successful write
writeContent(fs, content) ==
    LET filePath == getFilePath(content.category, content.slug)
    IN  [p \in DOMAIN fs \cup {filePath} |->
            IF p = filePath THEN JSONStringify(content) ELSE fs[p]]

\* readContent that takes a file that does not parse for a missing one
readContentLenient(fs, category, slug) ==
    LET filePath == getFilePath(category, slug)
    IN  IF filePath \in DOMAIN fs /\ fs[filePath] # NotJSON
        THEN JSONParse(fs[filePath]) ELSE Null

\* ContentStorage.readContent: the parsed record, or null on ENOENT
readContent(fs, category, slug) ==
    LET filePath == getFilePath(category, slug)
    IN  IF filePath \in DOMAIN fs THEN JSONParse(fs[filePath]) ELSE Null

\* ContentStorage.contentExists
contentExists(fs, category, slug) == getFilePath(category, slug) \in DOMAIN fs

\* join(this.basePath, dirName), relative to basePath
getCategoryDir(category) == DirNames[category]

\* readdir(dirPath) filtered by f.endsWith('.json'): the files of the directory
\* of the category (ENOENT and an empty directory both give none)
jsonFiles(fs, category) ==
    {filePath \in DOMAIN fs :
        /\ filePath.dir = getCategoryDir(category)
        /\ filePath.file[Len(filePath.file)] = ".json"}

\* ContentStorage.listSlugs: file.replace('.json', '') of every file, as a set
\* (readdir promises no order)
listSlugs(fs, category) ==
    {filePath.file[1] : filePath \in jsonFiles(fs, category)}

\* ContentStorage.listContent: readContent of every slug of the directory; an
\* error of readContent other than ENOENT leaves the loop and is thrown again
\* by the catch of listContent
listContent(fs, category) ==
    LET contents == {readContent(fs, category, slug) :
                        slug \in listSlugs(fs, category)}
    IN  IF SyntaxError \in contents THEN SyntaxError ELSE contents \ {Null}

\* ContentStorage.deleteContent: <<file system after, returned value>>
deleteContent(fs, category, slug) ==
    LET filePath == getFilePath(category, slug)
    IN  IF filePath \in DOMAIN fs
        THEN <<[p \in DOMAIN fs \ {filePath} |-> fs[p]], TRUE>>
        ELSE <<fs, FALSE>>

-----------------------------------------------------------------------------
(* Content diffing *)

SyncItemResult(content, status) ==
    [slug |-> content.slug, title |-> content.title,
     category |-> content.category, status |-> status]

\* diffStatus comparing the title as well as the checksum
diffStatusWithTitle(existing, content) ==
    IF existing = Null THEN "created"
    ELSE IF existing.checksum # content.checksum \/ existing.title # content.title
         THEN "updated"
    ELSE "unchanged"

\* the branch diffContent takes for one record, given what readContent returned
diffStatus(existing, content) ==
    IF existing = Null THEN "created"
    ELSE IF existing.checksum # content.checksum THEN "updated"
    ELSE "unchanged"

RECURSIVE diffLoop(_, _, _, _, _)
\* the for loop of diffContent from index i on, acc the three arrays so far
diffLoop(fs, newContent, category, i, acc) ==
    IF i > Len(newContent) THEN acc
    ELSE LET content == newContent[i]
             existing == readContent(fs, category, content.slug)
             status == diffStatus(existing, content)
             item == SyncItemResult(content, status)
         IN  diffLoop(fs, newContent, category, i + 1,
                 [created |-> IF status = "created"
                              THEN Append(acc.created, item) ELSE acc.created,
                  updated |-> IF status = "updated"
                              THEN Append(acc.updated, item) ELSE acc.updated,
                  unchanged |-> IF status = "unchanged"
                                THEN Append(acc.unchanged, item) ELSE acc.unchanged])

\* ContentStorage.diffContent
diffContent(fs, newContent, category) ==
    diffLoop(fs, newContent, category, 1,
             [created |-> <<>>, updated |-> <<>>, unchanged |-> <<>>])

RECURSIVE groupLoop(_, _, _)
\* the grouping loop of syncContent: byCategory is the Map, in insertion order
groupLoop(contents, i, byCategory) ==
    IF i > Len(contents) THEN byCategory
    ELSE LET content == contents[i]
             at == {g \in 1..Len(byCategory) :
                       byCategory[g].category = content.category}
         IN  IF at = {}
             THEN groupLoop(contents, i + 1,
                      Append(byCategory, [category |-> content.category,
                                          contents |-> <<content>>]))
             ELSE LET g == CHOOSE g \in at : TRUE
                  IN  groupLoop(contents, i + 1,
                          [byCategory EXCEPT ![g].contents = Append(@, content)])

RECURSIVE diffGroups(_, _, _, _)
\* the loop of syncContent that diffs each category and concatenates
diffGroups(fs, byCategory, g, all) ==
    IF g > Len(byCategory) THEN all
    ELSE LET d == diffContent(fs, byCategory[g].contents, byCategory[g].category)
         IN  diffGroups(fs, byCategory, g + 1,
                 [created |-> all.created \o d.created,
                  updated |-> all.updated \o d.updated,
                  unchanged |-> all.unchanged \o d.unchanged])

\* findResult that finds a result for every record
findResultAlways(allCreated, allUpdated, content) == TRUE

\* findResult that searches allCreated only
findResultCreatedOnly(allCreated, allUpdated, content) ==
    \E k \in 1..Len(allCreated) : allCreated[k].slug = content.slug

\* [...allCreated, ...allUpdated].find(r => r.slug === content.slug) finds one
findResult(allCreated, allUpdated, content) ==
    \E k \in 1..Len(allCreated \o allUpdated) :
        (allCreated \o allUpdated)[k].slug = content.slug

\* removeFailed that keeps every result
removeFailedKeepsAll(results, content) == results

\* results.filter(r => r.slug !== content.slug)
removeFailed(results, content) ==
    SelectSeq(results, LAMBDA r : r.slug # content.slug)

RECURSIVE writeLoop(_, _, _, _)
\* the write loop of syncContent from index i on; the write of contents[k]
\* throws exactly when k is in failing.  st: the file system, the arrays, the
\* indices written so far (in order) and the indices whose write threw
writeLoop(contents, i, failing, st) ==
    IF i > Len(contents) THEN st
    ELSE LET content == contents[i]
         IN  IF ~findResult(st.created, st.updated, content)
             THEN writeLoop(contents, i + 1, failing, st)
             ELSE IF i \notin failing
             THEN writeLoop(contents, i + 1, failing,
                      [st EXCEPT !.files = writeContent(st.files, content),
                                 !.written = Append(@, i)])
             ELSE writeLoop(contents, i + 1, failing,
                      [st EXCEPT
                          !.errors = Append(@, [slug |-> content.slug,
                                                title |-> content.title,
                                                category |-> content.category,
                                                status |-> "error",
                                                error |-> WriteError]),
                          !.created = removeFailed(@, content),
                          !.updated = removeFailed(@, content),
                          !.failed = @ \cup {i}])

\* syncContent that writes in a dry run too
syncContentIgnoringDryRun(fs, contents, dryRun, failing) ==
    LET byCategory == groupLoop(contents, 1, <<>>)
        all == diffGroups(fs, byCategory, 1,
                   [created |-> <<>>, updated |-> <<>>, unchanged |-> <<>>])
    IN  writeLoop(contents, 1, failing,
            [files |-> fs, created |-> all.created, updated |-> all.updated,
             unchanged |-> all.unchanged, errors |-> <<>>,
             written |-> <<>>, failed |-> {}])

\* syncContent that skips the diff in a dry run
syncContentDryRunSkipsDiff(fs, contents, dryRun, failing) ==
    LET byCategory == groupLoop(contents, 1, <<>>)
        all == diffGroups(fs, byCategory, 1,
                   [created |-> <<>>, updated |-> <<>>, unchanged |-> <<>>])
        st0 == [files |-> fs, created |-> all.created, updated |-> all.updated,
                unchanged |-> all.unchanged, errors |-> <<>>,
                written |-> <<>>, failed |-> {}]
    IN  IF dryRun
        THEN [st0 EXCEPT !.created = <<>>, !.updated = <<>>, !.unchanged = <<>>]
        ELSE writeLoop(contents, 1, failing, st0)

\* ContentStorage.syncContent
syncContent(fs, contents, dryRun, failing) ==
    LET byCategory == groupLoop(contents, 1, <<>>)
        all == diffGroups(fs, byCategory, 1,
                   [created |-> <<>>, updated |-> <<>>, unchanged |-> <<>>])
        st0 == [files |-> fs, created |-> all.created, updated |-> all.updated,
                unchanged |-> all.unchanged, errors |-> <<>>,
                written |-> <<>>, failed |-> {}]
    IN  IF dryRun THEN st0 ELSE writeLoop(contents, 1, failing, st0)

\* the value syncContent returns
Report(st) ==
    [created |-> st.created, updated |-> st.updated,
     unchanged |-> st.unchanged, errors |-> st.errors]

-----------------------------------------------------------------------------
(* Sync state ledger *)

EmptyMap == [x \in {} |-> Null]

getDefaultSyncState ==
    [version |-> SYNC_STATE_VERSION, sources |-> EmptyMap, lastFullSync |-> Null]

\* migrateSyncState that keeps the stored version
migrateSyncStateKeepsVersion(oldState) == oldState

migrateSyncState(oldState) == [oldState EXCEPT !.version = SYNC_STATE_VERSION]

\* ContentStorage.getSyncState on ledger text lg
getSyncState(lg) ==
    IF lg = NoFile THEN getDefaultSyncState
    ELSE LET state == JSONParse(lg)
         IN  IF state.version # SYNC_STATE_VERSION
             THEN migrateSyncState(state) ELSE state

\* ContentStorage.updateSyncState: the ledger text written
updateSyncState(state) == JSONStringify(state)

\* new Date().toISOString() at clock value t
ISOString(t) == [iso |-> t]

\* setSourceState that forgets the entries of the other sources
setSourceStateOnly(state, sourceName, sourceState, now) ==
    [state EXCEPT !.sources = [n \in {sourceName} |-> sourceState],
                  !.lastFullSync = ISOString(now)]

\* state.sources[sourceName] = sourceState; state.lastFullSync = new Date()
\* .toISOString(), the two assignments of updateSourceSyncState
setSourceState(state, sourceName, sourceState, now) ==
    LET sources == [n \in DOMAIN state.sources \cup {sourceName} |->
                       IF n = sourceName THEN sourceState ELSE state.sources[n]]
    IN  [state EXCEPT !.sources = sources, !.lastFullSync = ISOString(now)]

\* ContentStorage.updateSourceSyncState, new Date() read at time now
updateSourceSyncState(lg, sourceName, sourceState, now) ==
    updateSyncState(setSourceState(getSyncState(lg), sourceName, sourceState, now))

getDefaultSourceSyncState ==
    [lastSync |-> Null, checksums |-> EmptyMap, lastSyncCount |-> 0]

\* ContentStorage.getSourceSyncState
getSourceSyncState(lg, sourceName) ==
    LET state == getSyncState(lg)
    IN  IF sourceName \in DOMAIN state.sources
        THEN state.sources[sourceName] ELSE getDefaultSourceSyncState

\* the checksums map the sync command builds: the last record of a slug wins
checksumsOf(allContent) ==
    [s \in {allContent[i].slug : i \in 1..Len(allContent)} |->
        allContent[CHOOSE i \in 1..Len(allContent) :
                      /\ allContent[i].slug = s
                      /\ \A j \in (i + 1)..Len(allContent) :
                            allContent[j].slug # s].checksum]

-----------------------------------------------------------------------------
(* State machine *)

\* records found under the storage root when the program starts
SeedRecords ==
    {RawContent(CatPeople, "marcus-aurelius", "Marcus Aurelius", "Roman Emperor"),
     RawContent(CatCityStates, "marcus-aurelius", "Marcus Aurelius", "Roman Emperor"),
     RawContent(CatPeople, "seneca", "Marcus Aurelius", "Roman Emperor")}

RECURSIVE StorageOf(_)
\* the file system holding exactly the records of S, each written by writeContent
StorageOf(S) ==
    IF S = {} THEN EmptyMap
    ELSE LET r == CHOOSE r \in S : TRUE
         IN  writeContent(StorageOf(S \ {r}), r)

\* no call in progress
NoRun == [pc |-> "idle"]

NoCall ==
    [op |-> "init", contents |-> <<>>, category |-> <<>>, slug |-> "",
     dryRun |-> FALSE, source |-> "", written |-> <<>>, failed |-> {},
     result |-> Null]

Init ==
    /\ files \in {StorageOf(S) : S \in SUBSET SeedRecords}
    /\ ledger = NoFile
    /\ clock = 0
    /\ call = NoCall
    /\ prev = [op |-> "none", dryRun |-> FALSE, failed |-> {}]
    /\ pre = [files |-> files, ledger |-> NoFile]
    /\ run = NoRun

Completed(c) ==
    /\ call' = c
    /\ prev' = [op |-> call.op, dryRun |-> call.dryRun, failed |-> call.failed]
    /\ pre' = [files |-> files, ledger |-> ledger]
    /\ UNCHANGED run

\* the sets of indices of contents whose write may be made to throw: a write
\* syncContent can attempt is the write of a record whose slug is the slug of an
\* item classified created or updated
Failing(contents, dryRun) ==
    IF dryRun THEN {{}}
    ELSE LET st == syncContent(files, contents, TRUE, {})
         IN  SUBSET {i \in 1..Len(contents) :
                        findResult(st.created, st.updated, contents[i])}

\* storage.diffContent(newContent, category)
DiffContent ==
    /\ call.op = "init"
    /\ \E newContent \in Batches, category \in Categories :
           Completed([NoCall EXCEPT
               !.op = "diffContent", !.contents = newContent,
               !.category = category,
               !.result = diffContent(files, newContent, category)])
    /\ UNCHANGED <<files, ledger, clock>>

\* one call of storage.syncContent(contents, dryRun), in which the writes at
\* the indices of failing throw
SyncContentCall(contents, dryRun, failing) ==
    \E st \in {syncContent(files, contents, dryRun, failing)} :
        /\ files' = st.files
        /\ Completed([NoCall EXCEPT !.op = "syncContent", !.contents = contents,
                                    !.dryRun = dryRun, !.written = st.written,
                                    !.failed = st.failed, !.result = Report(st)])
        /\ UNCHANGED <<ledger, clock>>

\* storage.syncContent(contents, dryRun)
SyncContent ==
    /\ call.op = "init"
    /\ \E contents \in Batches, dryRun \in BOOLEAN :
           \E failing \in Failing(contents, dryRun) :
               SyncContentCall(contents, dryRun, failing)

\* storage.syncContent(contents) called again, right after a call that was no
\* dry run, with the batch of that call
SyncContentAgain ==
    /\ call.op = "syncContent"
    /\ prev.op = "init"
    /\ ~call.dryRun
    /\ \E failing \in Failing(call.contents, FALSE) :
           SyncContentCall(call.contents, FALSE, failing)

\* body of the per-source loop of the sync / ci-sync command, allContent being
\* what the retriever returned for the topics of the source
SyncSource(source, allContent, dryRun, failing) ==
    IF Len(allContent) > 0
    THEN \E st \in {syncContent(files, allContent, dryRun, failing)} :
         LET sourceState == [lastSync |-> ISOString(clock + 1),
                             checksums |-> checksumsOf(allContent),
                             lastSyncCount |-> Len(allContent)]
         IN  /\ files' = st.files
             /\ IF ~dryRun
                THEN /\ ledger' = updateSourceSyncState(ledger, source,
                                      sourceState, clock + 2)
                     /\ clock' = clock + 2
                ELSE UNCHANGED <<ledger, clock>>
             /\ Completed([NoCall EXCEPT
                    !.op = "sync", !.contents = allContent, !.dryRun = dryRun,
                    !.source = source, !.written = st.written,
                    !.failed = st.failed,
                    !.result = [source |-> source,
                                success |-> Len(st.errors) = 0,
                                created |-> st.created, updated |-> st.updated,
                                unchanged |-> st.unchanged,
                                errors |-> st.errors]])
    ELSE /\ Completed([NoCall EXCEPT
                    !.op = "sync", !.dryRun = dryRun, !.source = source,
                    !.result = [source |-> source, success |-> TRUE,
                                created |-> <<>>, updated |-> <<>>,
                                unchanged |-> <<>>, errors |-> <<>>]])
         /\ UNCHANGED <<files, ledger, clock>>

\* the sync / ci-sync command run for one source
SyncCommand ==
    /\ call.op = "init"
    /\ \E source \in Sources, allContent \in Batches, dryRun \in BOOLEAN :
           \E failing \in Failing(allContent, dryRun) :
               SyncSource(source, allContent, dryRun, failing)

\* storage.deleteContent(category, slug)
DeleteContent ==
    /\ call.op = "init"
    /\ \E category \in Categories, slug \in Slugs :
           LET d == deleteContent(files, category, slug)
           IN  /\ files' = d[1]
               /\ Completed([NoCall EXCEPT !.op = "deleteContent",
                                           !.category = category, !.slug = slug,
                                           !.result = d[2]])
    /\ UNCHANGED <<ledger, clock>>

Next ==
    \/ DiffContent
    \/ SyncContent
    \/ SyncContentAgain
    \/ SyncCommand
    \/ DeleteContent

Spec == Init /\ [][Next]_vars

-----------------------------------------------------------------------------
(* Vocabulary of the properties *)

\* the last completed call ran storage.syncContent on call.contents
SyncCalled ==
    \/ call.op = "syncContent"
    \/ call.op = "sync" /\ Len(call.contents) > 0

Range(seq) == {seq[k] : k \in 1..Len(seq)}

\* the storage key of a record: its file under the storage root
KeyOf(r) == getFilePath(r.category, r.slug)

\* no two records of the batch have the same storage key
DistinctKeys(contents) ==
    \A i, j \in 1..Len(contents) :
        i # j => KeyOf(contents[i]) # KeyOf(contents[j])

\* no two records of the batch have the same category string and slug
DistinctNames(contents) ==
    \A i, j \in 1..Len(contents) :
        i # j => <<contents[i].category, contents[i].slug>>
                     # <<contents[j].category, contents[j].slug>>

\* the bucket the contract assigns to record r diffed against (category, r.slug)
\* of file system fs
StatusIn(fs, category, r) ==
    IF ~contentExists(fs, category, r.slug) THEN "created"
    ELSE IF readContent(fs, category, r.slug).checksum = r.checksum
         THEN "unchanged"
         ELSE "updated"

\* the report items of the records of contents that the contract assigns to
\* bucket status, in batch order
ItemsWith(fs, category, contents, status) ==
    LET sel == SelectSeq(contents, LAMBDA r : StatusIn(fs, category, r) = status)
    IN  [k \in 1..Len(sel) |-> SyncItemResult(sel[k], status)]

\* some item of the bucket is the item of record r
Reported(bucket, r) ==
    \E k \in 1..Len(bucket) :
        /\ bucket[k].slug = r.slug
        /\ bucket[k].category = r.category
        /\ bucket[k].title = r.title

Buckets == {"created", "updated", "unchanged"}

-----------------------------------------------------------------------------
(* C1 *)

\* C1: diffContent(newRecords, category) puts every record of the batch in
\* exactly one bucket, the one decided by the record stored at
\* (category, r.slug): created iff none is stored, updated iff the stored
\* checksum differs, unchanged iff it is equal, whatever the title; each bucket
\* is the batch-ordered list of the items of its records.
C1_DiffClassification ==
    call.op = "diffContent" =>
        \A b \in Buckets :
            call.result[b] = ItemsWith(pre.files, call.category, call.contents, b)

\* a diff of two records, one new and one stored with an equal checksum and
\* another title
C1_Witness ==
    /\ call.op = "diffContent"
    /\ Len(call.result.created) = 1
    /\ Len(call.result.unchanged) = 1
    /\ readContent(pre.files, call.category, call.result.unchanged[1].slug).title
           # call.result.unchanged[1].title
-----------------------------------------------------------------------------
(* C2 *)

\* the last call was syncContent run again on the batch of a call that was no
\* dry run
SecondSync == call.op = "syncContent" /\ prev.op = "syncContent" /\ ~prev.dryRun

\* the report puts every record of the batch in unchanged and nothing elsewhere
AllUnchanged ==
    /\ call.result.created = <<>>
    /\ call.result.updated = <<>>
    /\ call.result.errors = <<>>
    /\ Len(call.result.unchanged) = Len(call.contents)
    /\ \A i \in 1..Len(call.contents) :
           SyncItemResult(call.contents[i], "unchanged")
               \in Range(call.result.unchanged)

-----------------------------------------------------------------------------
(* C3 *)

\* C3: a dry run of syncContent, also when made by the sync / ci-sync command,
\* leaves every stored record and the ledger exactly as they were; every
\* record it reports as created still does not exist.
C3_DryRunMutatesNothing ==
    ((SyncCalled \/ call.op = "sync") /\ call.dryRun) =>
        /\ files = pre.files
        /\ ledger = pre.ledger
        /\ \A k \in 1..Len(call.result.created) :
               ~contentExists(files, call.result.created[k].category,
                              call.result.created[k].slug)

\* a dry run of the sync command that reports one record created and one
\* updated
C3_Witness ==
    /\ call.op = "sync"
    /\ call.dryRun
    /\ Len(call.result.created) = 1
    /\ Len(call.result.updated) = 1

-----------------------------------------------------------------------------
(* C4 *)

\* C4: from the same storage and batch, the dry run returns the created,
\* updated and unchanged buckets that the run that writes returns when none of
\* its writes fails; the dry run returns errors empty.
C4_DryRunPreview ==
    /\ (SyncCalled /\ ~call.dryRun /\ call.failed = {}) =>
           \A b \in Buckets :
               call.result[b] = syncContent(pre.files, call.contents, TRUE, {})[b]
    /\ (SyncCalled /\ call.dryRun) => call.result.errors = <<>>

\* a run that wrote a created and an updated record without failure
C4_Witness ==
    /\ SyncCalled
    /\ ~call.dryRun
    /\ call.failed = {}
    /\ Len(call.written) = 2
    /\ Len(call.result.created) = 1
    /\ Len(call.result.updated) = 1

-----------------------------------------------------------------------------
(* C5 *)

\* the errors entry syncContent makes for record r
ErrorItem(r) ==
    [slug |-> r.slug, title |-> r.title, category |-> r.category,
     status |-> "error", error |-> WriteError]

\* C5: when the write of a record classified created or updated fails, the
\* report (the call returns one) has exactly one errors entry for the record,
\* with its slug, title and category, status error and the message, and the
\* record is in neither created nor updated.
C5_FailureDemoted ==
    (SyncCalled /\ ~call.dryRun) =>
        \A i \in call.failed :
            LET r == call.contents[i]
            IN  StatusIn(pre.files, r.category, r) \in {"created", "updated"} =>
                    /\ Cardinality({k \in 1..Len(call.result.errors) :
                                       call.result.errors[k] = ErrorItem(r)}) = 1
                    /\ ~Reported(call.result.created, r)
                    /\ ~Reported(call.result.updated, r)

\* the write of an updated record failed while the write of a created one
\* succeeded
C5_Witness ==
    /\ SyncCalled
    /\ ~call.dryRun
    /\ \E i \in call.failed :
           StatusIn(pre.files, call.contents[i].category, call.contents[i])
               = "updated"
    /\ Len(call.result.created) = 1
    /\ Len(call.written) = 1

-----------------------------------------------------------------------------
(* C6 *)

\* C6 as stated, for batches whose storage keys are pairwise distinct: if a
\* write fails during syncContent, every other record of the batch, whatever
\* its category or slug, is reported in the bucket diffContent assigned to it,
\* and is stored if that bucket is created or updated.
C6_PartialFailureIsolation ==
    (SyncCalled /\ ~call.dryRun /\ call.failed # {}
        /\ DistinctKeys(call.contents)) =>
        \A j \in (1..Len(call.contents)) \ call.failed :
            LET r == call.contents[j]
                status == StatusIn(pre.files, r.category, r)
            IN  /\ Reported(call.result[status], r)
                /\ status \in {"created", "updated"} =>
                       readContent(files, r.category, r.slug) = r

-----------------------------------------------------------------------------
(* C7 *)

\* the storage keys of the items of a bucket of the report
KeysIn(bucket) == {getFilePath(item.category, item.slug) : item \in Range(bucket)}

\* C7 as stated, for batches whose storage keys are pairwise distinct: in the
\* report of syncContent no (category, slug) key appears in more than one of
\* created, updated, unchanged and errors.
C7_AtMostOneBucket ==
    (SyncCalled /\ DistinctKeys(call.contents)) =>
        \A b1, b2 \in Buckets \cup {"errors"} :
            b1 # b2 => KeysIn(call.result[b1]) \cap KeysIn(call.result[b2]) = {}

-----------------------------------------------------------------------------
(* C8 *)

\* C8 as stated, for batches whose storage keys are pairwise distinct: the
\* record stored at the key of a record classified unchanged is, after
\* syncContent, field for field the record stored there before.
C8_UnchangedNotWritten ==
    (SyncCalled /\ DistinctKeys(call.contents)) =>
        \A i \in 1..Len(call.contents) :
            LET r == call.contents[i]
            IN  StatusIn(pre.files, r.category, r) = "unchanged" =>
                    readContent(files, r.category, r.slug)
                        = readContent(pre.files, r.category, r.slug)

-----------------------------------------------------------------------------
(* C9 *)

\* C9: every call other than deleteContent keeps every stored key, and
\* syncContent (dry or not, with or without failing writes) leaves unchanged
\* every stored record whose key is the key of no record of the batch.
C9_SyncNeverDeletes ==
    /\ call.op # "deleteContent" => DOMAIN pre.files \subseteq DOMAIN files
    /\ SyncCalled =>
           \A p \in DOMAIN pre.files :
               (\A i \in 1..Len(call.contents) : KeyOf(call.contents[i]) # p)
                   => (p \in DOMAIN files /\ files[p] = pre.files[p])

\* a sync with a failing write and a successful one, over a storage holding a
\* record whose key is not in the batch
C9_Witness ==
    /\ SyncCalled
    /\ call.failed # {}
    /\ Len(call.written) = 1
    /\ \E p \in DOMAIN pre.files :
           \A i \in 1..Len(call.contents) : KeyOf(call.contents[i]) # p

-----------------------------------------------------------------------------
(* C10 *)

\* after the call, reading back every record of the batch gives its checksum
\* and body, and a call made on an empty storage reported them all created
Converged ==
    /\ \A i \in 1..Len(call.contents) :
           LET r == call.contents[i]
               stored == readContent(files, r.category, r.slug)
           IN  /\ stored # Null
               /\ stored.checksum = r.checksum
               /\ stored.body = r.body
    /\ pre.files = EmptyMap =>
           /\ Len(call.result.created) = Len(call.contents)
           /\ \A i \in 1..Len(call.contents) :
                  Reported(call.result.created, call.contents[i])

\* C10 as stated: after a non-dry-run syncContent, none of whose writes failed,
\* of a batch whose (category, slug) pairs are pairwise distinct, readContent
\* returns for every record of the batch its checksum and body, and from an
\* empty storage all records are reported created.
C10_ConvergesDistinctNames ==
    (SyncCalled /\ ~call.dryRun /\ call.failed = {}
        /\ DistinctNames(call.contents)) => Converged

\* C10 amended: the same, for a batch whose keys are pairwise distinct after
\* the normalization of the category (lower case, whitespace to hyphen).
C10_Converges ==
    (SyncCalled /\ ~call.dryRun /\ call.failed = {}
        /\ DistinctKeys(call.contents)) => Converged

\* a sync without failure of two records with distinct keys, one updated and
\* one unchanged
C10_Witness ==
    /\ SyncCalled
    /\ ~call.dryRun
    /\ call.failed = {}
    /\ DistinctKeys(call.contents)
    /\ Len(call.result.updated) = 1
    /\ Len(call.result.unchanged) = 1


-----------------------------------------------------------------------------
(* Retrieval followed by sync: specification SpecRetrieve *)

\* discussionToRawContent, for a discussion whose title, slug, body and topic
\* are those of r, normalized when the clock shows now
discussionToRawContent(r, now) ==
    [category |-> r.category, title |-> r.title, slug |-> r.slug,
     retrievedAt |-> ISOString(now), checksum |-> generateSHA256Checksum(r.body),
     body |-> r.body]

\* the items retrieve returns for the discussions contents, at time now
retrieve(contents, now) ==
    [i \in 1..Len(contents) |-> discussionToRawContent(contents[i], now)]

\* the storage holds records retrieved at time 0 and the clock shows 1
InitRetrieve ==
    /\ files \in {StorageOf({discussionToRawContent(r, 0) : r \in S}) :
                     S \in SUBSET SeedRecords}
    /\ ledger = NoFile
    /\ clock = 1
    /\ call = NoCall
    /\ prev = [op |-> "none", dryRun |-> FALSE, failed |-> {}]
    /\ pre = [files |-> files, ledger |-> NoFile]
    /\ run = NoRun

\* the sync command on a source whose discussions are contents
RetrieveAndSync ==
    /\ call.op = "init"
    /\ \E source \in Sources, contents \in Batches, dryRun \in BOOLEAN :
           \E allContent \in {retrieve(contents, clock)} :
               \E failing \in Failing(allContent, dryRun) :
                   SyncSource(source, allContent, dryRun, failing)

\* the sync command run once more on the same, unmodified discussions
RetrieveAndSyncAgain ==
    /\ call.op = "sync"
    /\ ~call.dryRun
    /\ Len(call.contents) > 0
    /\ prev.op = "init"
    /\ \E allContent \in {retrieve(call.contents, clock)} :
           \E failing \in Failing(allContent, FALSE) :
               SyncSource(call.source, allContent, FALSE, failing)

NextRetrieve ==
    \/ RetrieveAndSync
    \/ RetrieveAndSyncAgain

SpecRetrieve == InitRetrieve /\ [][NextRetrieve]_vars

-----------------------------------------------------------------------------
(* C11 *)

\* a sync command that was no dry run, none of whose writes failed, on a
\* batch with pairwise distinct storage keys
CleanSync ==
    /\ call.op = "sync"
    /\ Len(call.contents) > 0
    /\ ~call.dryRun
    /\ call.failed = {}
    /\ DistinctKeys(call.contents)

-----------------------------------------------------------------------------
(* syncContent followed await by await: specification SpecSteps *)

\* the local variables of a syncContent call before its first read; seen and
\* replaced map the index of a record to what was stored at its key when
\* diffContent read it, and when its write was attempted
StartedRun(contents, dryRun, failing) ==
    [pc |-> "diff", contents |-> contents, dryRun |-> dryRun,
     failing |-> failing, byCategory |-> groupLoop(contents, 1, <<>>),
     g |-> 1, i |-> 1,
     st |-> [files |-> files, created |-> <<>>, updated |-> <<>>,
             unchanged |-> <<>>, errors |-> <<>>, written |-> <<>>,
             failed |-> {}],
     seen |-> EmptyMap, replaced |-> EmptyMap]

\* storage.syncContent(contents, dryRun) is called and groups the batch
StartSync ==
    /\ run.pc = "idle"
    /\ \E contents \in Batches, dryRun \in BOOLEAN :
           \E failing \in Failing(contents, dryRun) :
               run' = StartedRun(contents, dryRun, failing)
    /\ pre' = [files |-> files, ledger |-> ledger]
    /\ UNCHANGED <<files, ledger, clock, call, prev>>

\* one iteration of the loop over byCategory: diffContent of one category
DiffStep ==
    /\ run.pc = "diff"
    /\ run.g <= Len(run.byCategory)
    /\ LET group == run.byCategory[run.g]
           all == diffGroups(files, SubSeq(run.byCategory, 1, run.g), run.g,
                             [created |-> run.st.created,
                              updated |-> run.st.updated,
                              unchanged |-> run.st.unchanged])
           read == {k \in 1..Len(run.contents) :
                       run.contents[k].category = group.category}
       IN  run' = [run EXCEPT
                      !.st = [@ EXCEPT !.created = all.created,
                                       !.updated = all.updated,
                                       !.unchanged = all.unchanged],
                      !.seen = [k \in DOMAIN @ \cup read |->
                                   IF k \in read
                                   THEN readContent(files, group.category,
                                                    run.contents[k].slug)
                                   ELSE @[k]],
                      !.g = @ + 1]
    /\ UNCHANGED <<files, ledger, clock, call, prev, pre>>

\* the diffs are done: the write loop starts, unless this is a dry run
DiffDone ==
    /\ run.pc = "diff"
    /\ run.g > Len(run.byCategory)
    /\ run' = [run EXCEPT !.pc = IF run.dryRun THEN "return" ELSE "write"]
    /\ UNCHANGED <<files, ledger, clock, call, prev, pre>>

\* one iteration of the write loop
WriteStep ==
    /\ run.pc = "write"
    /\ run.i <= Len(run.contents)
    /\ \E st \in {writeLoop(SubSeq(run.contents, 1, run.i), run.i,
                            run.failing, [run.st EXCEPT !.files = files])} :
           LET content == run.contents[run.i]
               attempted == run.i \in Range(st.written) \cup st.failed
           IN  /\ files' = st.files
               /\ run' = [run EXCEPT
                      !.st = st,
                      !.replaced = [k \in DOMAIN @ \cup
                                         (IF attempted THEN {run.i} ELSE {}) |->
                                       IF k = run.i
                                       THEN readContent(files, content.category,
                                                        content.slug)
                                       ELSE @[k]],
                      !.i = @ + 1]
    /\ UNCHANGED <<ledger, clock, call, prev, pre>>

\* the write loop is over
WriteDone ==
    /\ run.pc = "write"
    /\ run.i > Len(run.contents)
    /\ run' = [run EXCEPT !.pc = "return"]
    /\ UNCHANGED <<files, ledger, clock, call, prev, pre>>

\* syncContent returns its report
ReturnSync ==
    /\ run.pc = "return"
    /\ call' = [NoCall EXCEPT !.op = "syncContent", !.contents = run.contents,
                              !.dryRun = run.dryRun,
                              !.written = run.st.written,
                              !.failed = run.st.failed,
                              !.result = Report(run.st)]
    /\ prev' = [op |-> call.op, dryRun |-> call.dryRun, failed |-> call.failed]
    /\ run' = [run EXCEPT !.pc = "returned"]
    /\ UNCHANGED <<files, ledger, clock, pre>>

NextSteps ==
    \/ StartSync
    \/ DiffStep
    \/ DiffDone
    \/ WriteStep
    \/ WriteDone
    \/ ReturnSync

SpecSteps == Init /\ [][NextSteps]_vars

\* the call followed step by step returns what the call taken as one step
\* returns, and leaves the same files
StepsAgree ==
    run.pc = "returned" =>
        \E st \in {syncContent(pre.files, run.contents, run.dryRun, run.failing)} :
            /\ call.result = Report(st)
            /\ files = st.files

-----------------------------------------------------------------------------
(* C12 *)

\* every write attempted so far came after the read of its key by diffContent
\* and found at that key what that read had found
ReadConsistentWithWrite ==
    \A k \in DOMAIN run.replaced :
        /\ k \in DOMAIN run.seen
        /\ run.replaced[k] = run.seen[k]

\* C12 as stated: within one syncContent call, for every record of every
\* batch, the read that classifies the record precedes its write and the
\* state stored at its key is the same at that read and at that write.
C12_ReadBeforeWriteAnyBatch ==
    run.pc \in {"diff", "write", "return", "returned"} =>
        ReadConsistentWithWrite

\* C12 amended: the same, for every record of every batch whose storage keys
\* are pairwise distinct.
C12_ReadBeforeWrite ==
    (run.pc \in {"diff", "write", "return", "returned"}
        /\ DistinctKeys(run.contents)) => ReadConsistentWithWrite

\* a call on a batch with distinct keys that attempted two writes, one of
\* them replacing a stored record
C12_Witness ==
    /\ run.pc = "returned"
    /\ DistinctKeys(run.contents)
    /\ Cardinality(DOMAIN run.replaced) = 2
    /\ \E k \in DOMAIN run.replaced : run.replaced[k] # Null

-----------------------------------------------------------------------------
(* The sync-state ledger under two processes: specification SpecLedger *)

\* the processes that share the ledger file, and the source each one syncs
Procs == {1, 2}

SourceOf == <<"speculum-principum", "test-source">>

LedgerSources == {SourceOf[p] : p \in Procs}

\* values of SourceSyncState
SourceStates ==
    {getDefaultSourceSyncState,
     [lastSync |-> ISOString(0),
      checksums |-> [slug \in {"marcus-aurelius"} |->
                        generateSHA256Checksum("Roman Emperor")],
      lastSyncCount |-> 1]}

\* values of SyncState, of the current version and of an older one
LedgerStates ==
    [version : {0, SYNC_STATE_VERSION},
     sources : UNION {[D -> SourceStates] : D \in SUBSET LedgerSources},
     lastFullSync : {Null, ISOString(0)}]

\* per process: where it is in updateSourceSyncState, the sourceState it was
\* given, the state it read, and whether no other process has written the
\* ledger since that read; order: the processes in the order of their writes;
\* written: the state last handed to updateSyncState
InitLedger ==
    /\ files = StorageOf(SeedRecords)
    /\ ledger \in {NoFile} \cup {updateSyncState(state) : state \in LedgerStates}
    /\ clock = 0
    /\ call = NoCall
    /\ prev = [op |-> "none", dryRun |-> FALSE, failed |-> {}]
    /\ pre = [files |-> files, ledger |-> ledger]
    /\ run = [pc |-> "ledger",
              procs |-> [p \in Procs |->
                            [pc |-> "start", sourceState |-> Null,
                             state |-> Null, alone |-> TRUE]],
              order |-> <<>>, written |-> Null]

\* a call of the storage API by process p (or by the single caller) returned
Returned(c) ==
    /\ call' = c
    /\ prev' = [op |-> call.op, dryRun |-> call.dryRun, failed |-> call.failed]
    /\ pre' = [files |-> files, ledger |-> ledger]

\* process p calls updateSourceSyncState(SourceOf[p], sourceState) and
\* completes its first await: const state = await this.getSyncState()
ReadLedger(p) ==
    /\ run.procs[p].pc = "start"
    /\ \E sourceState \in SourceStates :
           run' = [run EXCEPT !.procs[p] =
                      [pc |-> "write", sourceState |-> sourceState,
                       state |-> getSyncState(ledger), alone |-> TRUE]]
    /\ UNCHANGED <<files, ledger, clock, call, prev, pre>>

\* WriteLedger that reads the ledger again when it writes
WriteLedgerFresh(p) ==
    /\ run.procs[p].pc = "write"
    /\ \E state \in {setSourceState(getSyncState(ledger), SourceOf[p],
                                    run.procs[p].sourceState, clock + 1)} :
           /\ ledger' = updateSyncState(state)
           /\ run' = [run EXCEPT
                  !.procs = [q \in Procs |->
                                IF q = p THEN [@[q] EXCEPT !.pc = "done"]
                                ELSE IF @[q].pc = "write"
                                THEN [@[q] EXCEPT !.alone = FALSE]
                                ELSE @[q]],
                  !.order = Append(@, p),
                  !.written = state]
    /\ clock' = clock + 1
    /\ Returned([NoCall EXCEPT !.op = "updateSourceSyncState",
                               !.source = SourceOf[p]])
    /\ UNCHANGED files

\* process p sets its entry and lastFullSync in the state it read and
\* completes await this.updateSyncState(state)
WriteLedger(p) ==
    /\ run.procs[p].pc = "write"
    /\ \E state \in {setSourceState(run.procs[p].state, SourceOf[p],
                                    run.procs[p].sourceState, clock + 1)} :
           /\ ledger' = updateSyncState(state)
           /\ run' = [run EXCEPT
                  !.procs = [q \in Procs |->
                                IF q = p THEN [@[q] EXCEPT !.pc = "done"]
                                ELSE IF @[q].pc = "write"
                                THEN [@[q] EXCEPT !.alone = FALSE]
                                ELSE @[q]],
                  !.order = Append(@, p),
                  !.written = state]
    /\ clock' = clock + 1
    /\ Returned([NoCall EXCEPT !.op = "updateSourceSyncState",
                               !.source = SourceOf[p]])
    /\ UNCHANGED files

\* storage.updateSyncState(state), before any process has started
UpdateSyncState ==
    /\ call.op = "init"
    /\ \A p \in Procs : run.procs[p].pc = "start"
    /\ \E state \in LedgerStates :
           /\ ledger' = updateSyncState(state)
           /\ run' = [run EXCEPT !.written = state]
    /\ Returned([NoCall EXCEPT !.op = "updateSyncState"])
    /\ UNCHANGED <<files, clock>>

\* storage.getSyncState(), while no process is between its read and its write
GetSyncState ==
    /\ call.op # "getSyncState"
    /\ \A p \in Procs : run.procs[p].pc # "write"
    /\ Returned([NoCall EXCEPT !.op = "getSyncState",
                               !.result = getSyncState(ledger)])
    /\ UNCHANGED <<files, ledger, clock, run>>

NextLedger ==
    \/ \E p \in Procs : ReadLedger(p)
    \/ \E p \in Procs : WriteLedger(p)
    \/ UpdateSyncState
    \/ GetSyncState

SpecLedger == InitLedger /\ [][NextLedger]_vars

-----------------------------------------------------------------------------
(* C13 *)

\* both processes have completed updateSourceSyncState
BothWrote == \A p \in Procs : run.procs[p].pc = "done"

FirstWriter == run.order[1]

LastWriter == run.order[Len(run.order)]

\* the two calls overlapped: the first writer wrote between the read and the
\* write of the last writer
Overlapped == ~run.procs[LastWriter].alone

\* C13: after two processes have run updateSourceSyncState for two different
\* sources on one ledger, the ledger holds the last writer's entry; if the
\* calls overlapped, the entry of the first writer's source is what the last
\* writer had read (the first writer's update is lost); if they did not
\* overlap, both entries are present.
C13_LastWriterWins ==
    (run.pc = "ledger" /\ BothWrote) =>
        LET sources == JSONParse(ledger).sources
            mine == SourceOf[LastWriter]
            other == SourceOf[FirstWriter]
            read == run.procs[LastWriter].state.sources
        IN  /\ mine # other
            /\ mine \in DOMAIN sources
            /\ sources[mine] = run.procs[LastWriter].sourceState
            /\ Overlapped =>
                   /\ other \in DOMAIN sources <=> other \in DOMAIN read
                   /\ other \in DOMAIN sources => sources[other] = read[other]
            /\ ~Overlapped =>
                   /\ other \in DOMAIN sources
                   /\ sources[other] = run.procs[FirstWriter].sourceState

\* the two calls overlapped and the ledger holds the last writer's entry only
C13_Witness ==
    /\ run.pc = "ledger"
    /\ BothWrote
    /\ Overlapped
    /\ DOMAIN JSONParse(ledger).sources = {SourceOf[LastWriter]}

-----------------------------------------------------------------------------
(* C14 *)

\* C14: when no other process wrote the ledger between the read and the write
\* of updateSourceSyncState(name, s), the ledger it leaves has sources[name] =
\* s, the entries of the other sources as before the call and no others,
\* lastFullSync set to the time of the call, which is not null; the record
\* files are those of before the call.
C14_SingleWriterUpdate ==
    (/\ run.pc = "ledger"
     /\ call.op = "updateSourceSyncState"
     /\ run.procs[LastWriter].alone) =>
        LET name == SourceOf[LastWriter]
            before == getSyncState(pre.ledger)
            after == JSONParse(ledger)
        IN  /\ call.source = name
            /\ getSourceSyncState(ledger, name) = run.procs[LastWriter].sourceState
            /\ after.sources[name] = run.procs[LastWriter].sourceState
            /\ DOMAIN after.sources = DOMAIN before.sources \cup {name}
            /\ \A n \in DOMAIN before.sources \ {name} :
                   after.sources[n] = before.sources[n]
            /\ after.lastFullSync = ISOString(clock)
            /\ after.lastFullSync # Null
            /\ files = pre.files

\* a second update, not overlapping the first, on a ledger that held the entry
\* of the other source
C14_Witness ==
    /\ run.pc = "ledger"
    /\ call.op = "updateSourceSyncState"
    /\ Len(run.order) = 2
    /\ run.procs[LastWriter].alone
    /\ SourceOf[FirstWriter] \in DOMAIN getSyncState(pre.ledger).sources
    /\ DOMAIN JSONParse(ledger).sources = LedgerSources

-----------------------------------------------------------------------------
(* C15 *)

\* C15: getSyncState writes nothing; with no ledger file it returns the
\* current version, no sources and lastFullSync null; after updateSyncState(s)
\* it returns the sources and lastFullSync of s and the current version,
\* whatever the version of s.
C15_GetSyncStateReadOrDefault ==
    (run.pc = "ledger" /\ call.op = "getSyncState") =>
        /\ ledger = pre.ledger
        /\ files = pre.files
        /\ ledger = NoFile =>
               call.result = [version |-> SYNC_STATE_VERSION,
                              sources |-> EmptyMap, lastFullSync |-> Null]
        /\ run.written # Null =>
               /\ call.result.sources = run.written.sources
               /\ call.result.lastFullSync = run.written.lastFullSync
               /\ call.result.version = SYNC_STATE_VERSION

\* getSyncState right after updateSyncState(s), s of an older version and
\* holding the entries of both sources
C15_Witness ==
    /\ run.pc = "ledger"
    /\ call.op = "getSyncState"
    /\ prev.op = "updateSyncState"
    /\ run.written # Null
    /\ run.written.version # SYNC_STATE_VERSION
    /\ DOMAIN call.result.sources = LedgerSources
    /\ call.result.lastFullSync # Null

-----------------------------------------------------------------------------
(* Sequences of content operations: specification SpecStorage *)

\* the category directory the contract gives each category name of the model:
\* names differing in letter case or in whitespace versus hyphen share one
NormalizedCategory ==
    [category \in Categories |->
        IF category = CatPeople THEN "people" ELSE "city-states"]

\* the key of the contract for (category, slug)
MapKey(category, slug) == <<NormalizedCategory[category], slug>>

\* the storage root is empty or holds one file that is no JSON document;
\* kv: the map the contract describes, from keys to the record last written
\* (to SyntaxError for the file that is no JSON document); kvBefore: kv before
\* the last call
InitStorage ==
    /\ \E damaged \in {{}, {<<CatPeople, "seneca">>},
                       {<<CatPeople, "marcus-aurelius">>}} :
           /\ files = [filePath \in {getFilePath(d[1], d[2]) : d \in damaged}
                          |-> NotJSON]
           /\ run = [pc |-> "storage",
                     kv |-> [key \in {MapKey(d[1], d[2]) : d \in damaged}
                               |-> SyntaxError],
                     kvBefore |-> EmptyMap]
    /\ ledger = NoFile
    /\ clock = 0
    /\ call = NoCall
    /\ prev = [op |-> "none", dryRun |-> FALSE, failed |-> {}]
    /\ pre = [files |-> files, ledger |-> NoFile]

\* storage.writeContent(content), for the records of one title
StorageWrite ==
    /\ run.pc = "storage"
    /\ \E content \in {r \in Records : r.title = "Marcus Aurelius"} :
           LET key == MapKey(content.category, content.slug)
           IN  /\ files' = writeContent(files, content)
               /\ run' = [run EXCEPT
                      !.kv = [k \in DOMAIN @ \cup {key} |->
                                 IF k = key THEN content ELSE @[k]],
                      !.kvBefore = run.kv]
               /\ Returned([NoCall EXCEPT
                      !.op = "writeContent", !.contents = <<content>>,
                      !.category = content.category, !.slug = content.slug,
                      !.result = getFilePath(content.category, content.slug)])
    /\ UNCHANGED <<ledger, clock>>

\* storage.deleteContent(category, slug)
StorageDelete ==
    /\ run.pc = "storage"
    /\ \E category \in Categories, slug \in Slugs :
           LET key == MapKey(category, slug)
               d == deleteContent(files, category, slug)
           IN  /\ files' = d[1]
               /\ run' = [run EXCEPT
                      !.kv = [k \in DOMAIN @ \ {key} |-> @[k]],
                      !.kvBefore = run.kv]
               /\ Returned([NoCall EXCEPT
                      !.op = "deleteContent", !.category = category,
                      !.slug = slug, !.result = d[2]])
    /\ UNCHANGED <<ledger, clock>>

\* storage.readContent(category, slug)
StorageRead ==
    /\ run.pc = "storage"
    /\ \E category \in Categories, slug \in Slugs :
           Returned([NoCall EXCEPT
               !.op = "readContent", !.category = category, !.slug = slug,
               !.result = readContent(files, category, slug)])
    /\ run' = [run EXCEPT !.kvBefore = run.kv]
    /\ UNCHANGED <<files, ledger, clock>>

\* storage.contentExists(category, slug)
StorageExists ==
    /\ run.pc = "storage"
    /\ \E category \in Categories, slug \in Slugs :
           Returned([NoCall EXCEPT
               !.op = "contentExists", !.category = category, !.slug = slug,
               !.result = contentExists(files, category, slug)])
    /\ run' = [run EXCEPT !.kvBefore = run.kv]
    /\ UNCHANGED <<files, ledger, clock>>

\* storage.listSlugs(category)
StorageListSlugs ==
    /\ run.pc = "storage"
    /\ \E category \in Categories :
           Returned([NoCall EXCEPT
               !.op = "listSlugs", !.category = category,
               !.result = listSlugs(files, category)])
    /\ run' = [run EXCEPT !.kvBefore = run.kv]
    /\ UNCHANGED <<files, ledger, clock>>

\* storage.listContent(category)
StorageListContent ==
    /\ run.pc = "storage"
    /\ \E category \in Categories :
           Returned([NoCall EXCEPT
               !.op = "listContent", !.category = category,
               !.result = listContent(files, category)])
    /\ run' = [run EXCEPT !.kvBefore = run.kv]
    /\ UNCHANGED <<files, ledger, clock>>

NextStorage ==
    \/ StorageWrite
    \/ StorageDelete
    \/ StorageRead
    \/ StorageExists
    \/ StorageListSlugs
    \/ StorageListContent

SpecStorage == InitStorage /\ [][NextStorage]_vars

-----------------------------------------------------------------------------
(* C16 *)

\* what the map of the contract holds at (category, slug)
Lookup(kv, category, slug) ==
    IF MapKey(category, slug) \in DOMAIN kv
    THEN kv[MapKey(category, slug)] ELSE Null

\* C16: after any sequence of writeContent and deleteContent, for every
\* category name and slug, readContent gives the record last written at the key (normalized category,
\* slug) and not deleted since, or null; contentExists and listSlugs say the
\* same; and the last call, if it is one of readContent, contentExists,
\* listSlugs or deleteContent, returned what the map gives (deleteContent:
\* true exactly when the key was there).
C16_StorageIsMap ==
    run.pc = "storage" =>
        /\ \A category \in Categories, slug \in Slugs :
               /\ readContent(files, category, slug)
                      = Lookup(run.kv, category, slug)
               /\ contentExists(files, category, slug)
                      <=> Lookup(run.kv, category, slug) # Null
               /\ slug \in listSlugs(files, category)
                      <=> Lookup(run.kv, category, slug) # Null
        /\ call.op = "readContent" =>
               call.result = Lookup(run.kv, call.category, call.slug)
        /\ call.op = "contentExists" =>
               call.result = (Lookup(run.kv, call.category, call.slug) # Null)
        /\ call.op = "listSlugs" =>
               call.result = {slug \in Slugs :
                                 Lookup(run.kv, call.category, slug) # Null}
        /\ call.op = "deleteContent" =>
               call.result =
                   (Lookup(run.kvBefore, call.category, call.slug) # Null)

\* deleteContent under one name of a category returned true for a record
\* written under another name of it, and the record is gone
C16_Witness ==
    /\ run.pc = "storage"
    /\ call.op = "deleteContent"
    /\ call.result = TRUE
    /\ call.category = CatCityStates
    /\ Lookup(run.kvBefore, call.category, call.slug) \notin {Null, SyntaxError}
    /\ Lookup(run.kvBefore, call.category, call.slug).category
           = CatCityStatesHyphen
    /\ readContent(files, CatCityStatesHyphen, call.slug) = Null
    /\ DOMAIN run.kv # {}

-----------------------------------------------------------------------------
(* C17 *)

\* C17 as stated: listContent(category) returns the entries of the category
\* that parse, skipping those that do not, and the empty list when the
\* directory of the category is missing.
C17_ListContentSkipsBadEntries ==
    (run.pc = "storage" /\ call.op = "listContent") =>
        /\ call.result # SyntaxError
        /\ call.result =
               {Lookup(run.kv, call.category, slug) : slug \in Slugs}
                   \ {Null, SyntaxError}

-----------------------------------------------------------------------------
(* Pagination of listAllDiscussions: specifications SpecPages, SpecPagesFair *)

\* most discussions an origin of the model holds
MaxOrigin == 250

\* GitHub's cap on `first`, and the default of maxItems
PageCap == 100

DefaultMaxItems == 1000

\* the values of maxItems the model calls listAllDiscussions with
MaxItemsValues == {0, 1, PageCap, PageCap + 50, DefaultMaxItems}

\* the value undefined of the code
Undefined == [undefined |-> TRUE]

Min(a, b) == IF a < b THEN a ELSE b

\* the cursor that points after the k-th discussion of the origin
Cursor(k) == [cursor |-> k]

\* origins: one that holds the discussions 1..n in this order and honours
\* `first` and `after`, and one that may answer anything with at most `first`
\* nodes
Origins ==
    {[kind |-> "honours", n |-> n] : n \in 0..MaxOrigin}
        \cup {[kind |-> "any", n |-> 0]}

\* the pages the origin may answer a request (first, after) with, the
\* collected list being have long
Responses(origin, first, after, have) ==
    IF origin.kind = "honours"
    THEN LET start == IF after = Null THEN 0 ELSE after.cursor
             end == Min(start + first, origin.n)
         IN  {[nodes |-> [k \in 1..(end - start) |-> start + k],
               pageInfo |-> [hasNextPage |-> end < origin.n,
                             endCursor |-> IF end > start
                                           THEN Cursor(end) ELSE Null]]}
    ELSE {[nodes |-> [k \in 1..count |-> have + k],
           pageInfo |-> [hasNextPage |-> hasNextPage, endCursor |-> endCursor]] :
             count \in {0, 1, first} \cap 0..first,
             hasNextPage \in BOOLEAN,
             endCursor \in {Null, Cursor(1), Cursor(2)}}

\* listDiscussions that never passes the cursor on
listDiscussionsFirstPage(origin, limit, cursor, have) ==
    LET first == Min(limit, PageCap)
    IN  {[request |-> [first |-> first, after |-> Null], response |-> response] :
            response \in Responses(origin, first, Null, have)}

\* listDiscussions(repo, categoryId, limit, cursor): the request it sends,
\* with first: Math.min(limit, 100) and after: cursor || null, and the
\* responses it may return
listDiscussions(origin, limit, cursor, have) ==
    LET first == Min(limit, PageCap)
        after == IF cursor = Undefined THEN Null ELSE cursor
    IN  {[request |-> [first |-> first, after |-> after], response |-> response] :
            response \in Responses(origin, first, after, have)}

\* pageSize that always asks for a full page
pageSizeFull(maxItems, have) == PageCap

\* const remaining = maxItems - allDiscussions.length;
\* const pageSize = Math.min(remaining, 100)
pageSize(maxItems, have) == Min(maxItems - have, PageCap)

InitPages ==
    /\ files = EmptyMap
    /\ ledger = NoFile
    /\ clock = 0
    /\ call = NoCall
    /\ prev = [op |-> "none", dryRun |-> FALSE, failed |-> {}]
    /\ pre = [files |-> files, ledger |-> NoFile]
    /\ run = NoRun

\* listAllDiscussions(repo, categoryId, maxItems) is called; requests logs,
\* for the origin that honours the request, the requests sent and the
\* endCursor each one got
StartList ==
    /\ run.pc = "idle"
    /\ \E origin \in Origins, maxItems \in MaxItemsValues :
           /\ origin.kind = "any" => maxItems <= MaxOrigin
           /\ run' = [pc |-> "loop", origin |-> origin, maxItems |-> maxItems,
                      allDiscussions |-> <<>>, cursor |-> Undefined,
                      hasMore |-> TRUE, requests |-> <<>>]
    /\ UNCHANGED <<files, ledger, clock, call, prev, pre>>

\* one iteration of the while loop
ListPage ==
    /\ run.pc = "loop"
    /\ run.hasMore
    /\ Len(run.allDiscussions) < run.maxItems
    /\ \E page \in listDiscussions(run.origin,
                      pageSize(run.maxItems, Len(run.allDiscussions)),
                      run.cursor, Len(run.allDiscussions)) :
           run' = [run EXCEPT
               !.allDiscussions = @ \o page.response.nodes,
               !.hasMore = page.response.pageInfo.hasNextPage,
               !.cursor = IF page.response.pageInfo.endCursor = Null
                          THEN Undefined
                          ELSE page.response.pageInfo.endCursor,
               !.requests = IF run.origin.kind = "honours"
                            THEN Append(@, [first |-> page.request.first,
                                            after |-> page.request.after,
                                            have |-> Len(run.allDiscussions),
                                            endCursor |->
                                              page.response.pageInfo.endCursor])
                            ELSE @]
    /\ UNCHANGED <<files, ledger, clock, call, prev, pre>>

\* the loop condition is false: return allDiscussions
ReturnList ==
    /\ run.pc = "loop"
    /\ ~(run.hasMore /\ Len(run.allDiscussions) < run.maxItems)
    /\ run' = [run EXCEPT !.pc = "returned"]
    /\ Returned([NoCall EXCEPT !.op = "listAllDiscussions",
                               !.result = run.allDiscussions])
    /\ UNCHANGED <<files, ledger, clock>>

NextPages ==
    \/ StartList
    \/ ListPage
    \/ ReturnList

SpecPages == InitPages /\ [][NextPages]_vars

\* the event loop runs a call that can take a step
SpecPagesFair == SpecPages /\ WF_vars(NextPages)

-----------------------------------------------------------------------------
(* C18 *)

\* listAllDiscussions has returned from an origin that honours the requests
ReturnedFromHonouring ==
    /\ run.pc = "returned"
    /\ run.origin.kind = "honours"

\* C18: from an origin holding n discussions that honours `first` and
\* `after`, with 1 <= n <= maxItems, listAllDiscussions returns the n
\* discussions, each once and in the order of the origin, after ceil(n / 100)
\* requests, each asking for 1 to 100 items, the first with no cursor and
\* each other one with the endCursor the request before it got.
C18_PaginationComplete ==
    (/\ ReturnedFromHonouring
     /\ 1 <= run.origin.n
     /\ run.origin.n <= run.maxItems) =>
        /\ call.result = [k \in 1..run.origin.n |-> k]
        /\ Len(run.requests) = (run.origin.n + PageCap - 1) \div PageCap
        /\ \A j \in 1..Len(run.requests) :
               /\ 1 <= run.requests[j].first
               /\ run.requests[j].first <= PageCap
               /\ run.requests[j].after =
                      IF j = 1 THEN Null ELSE run.requests[j - 1].endCursor

\* 250 discussions were retrieved with 3 requests
C18_Witness ==
    /\ ReturnedFromHonouring
    /\ run.origin.n = 250
    /\ run.maxItems = DefaultMaxItems
    /\ Len(call.result) = 250
    /\ Len(run.requests) = 3

-----------------------------------------------------------------------------
(* C19 *)

\* C19: whatever an origin answers with at most `first` nodes per page,
\* listAllDiscussions never holds more than maxItems items; from an origin
\* that holds more than maxItems discussions it returns the first maxItems of
\* them, and every request it sent was sent with fewer than maxItems items
\* collected.
C19_HardCap ==
    run.pc \in {"loop", "returned"} =>
        /\ Len(run.allDiscussions) <= run.maxItems
        /\ run.pc = "returned" => Len(call.result) <= run.maxItems
        /\ (ReturnedFromHonouring /\ run.origin.n > run.maxItems) =>
               call.result = [k \in 1..run.maxItems |-> k]
        /\ \A j \in 1..Len(run.requests) :
               run.requests[j].have < run.maxItems

\* 150 of 250 discussions were returned, after two requests
C19_Witness ==
    /\ ReturnedFromHonouring
    /\ run.origin.n = 250
    /\ run.maxItems = PageCap + 50
    /\ Len(call.result) = run.maxItems
    /\ Len(run.requests) = 2

-----------------------------------------------------------------------------
(* C20 *)

\* C20 as stated: whatever successful responses the origin gives, every call
\* of listAllDiscussions eventually returns.
C20_Terminates == (run.pc = "loop") ~> (run.pc = "returned")

-----------------------------------------------------------------------------
(* GitHub GraphQL client: graphqlRequest (graphql.ts) *)

\* a JavaScript string whose characters the code inspects
Str(chars) == [str |-> chars]

NaN == [nan |-> TRUE]

DigitSeq == <<"0", "1", "2", "3", "4", "5", "6", "7", "8", "9">>

Digits == {DigitSeq[i] : i \in DOMAIN DigitSeq}

DigitValue(c) == (CHOOSE i \in DOMAIN DigitSeq : DigitSeq[i] = c) - 1

\* the longest prefix of decimal digits of a character sequence
RECURSIVE DigitPrefix(_)
DigitPrefix(chars) ==
    IF chars = <<>> \/ Head(chars) \notin Digits
    THEN <<>>
    ELSE <<Head(chars)>> \o DigitPrefix(Tail(chars))

RECURSIVE SkipWhiteSpace(_)
SkipWhiteSpace(chars) ==
    IF chars # <<>> /\ Head(chars) = " "
    THEN SkipWhiteSpace(Tail(chars))
    ELSE chars

RECURSIVE StripZeros(_)
StripZeros(digits) ==
    IF Len(digits) > 1 /\ Head(digits) = "0"
    THEN StripZeros(Tail(digits))
    ELSE digits

\* parseInt(string) on decimal input: leading white space is skipped, an
\* optional sign is read, then the digits up to the first other character;
\* NaN when there is no digit.  The number is kept as its decimal digits,
\* without leading zeros.
parseInt(s) ==
    LET t == SkipWhiteSpace(s.str)
        signed == t # <<>> /\ Head(t) \in {"+", "-"}
        digits == StripZeros(DigitPrefix(IF signed THEN Tail(t) ELSE t))
    IN IF digits = <<>>
       THEN NaN
       ELSE [negative |-> signed /\ Head(t) = "-" /\ digits # <<"0">>,
             digits |-> digits]

\* a <= b for two naturals written as decimal digits without leading zeros
RECURSIVE LeqDigits(_, _)
LeqDigits(a, b) ==
    IF Len(a) # Len(b) THEN Len(a) < Len(b)
    ELSE IF a = <<>> THEN TRUE
    ELSE IF Head(a) # Head(b) THEN DigitValue(Head(a)) < DigitValue(Head(b))
    ELSE LeqDigits(Tail(a), Tail(b))

\* the largest number of seconds whose 1000-fold is a time value a Date can
\* hold (8.64e15 ms)
MaxDateSeconds ==
    <<"8", "6", "4", "0", "0", "0", "0", "0", "0", "0", "0", "0", "0">>

InvalidDate == [invalidDate |-> TRUE]

RangeError == [throws |-> "RangeError"]
TypeError == [throws |-> "TypeError"]

\* new Date(parseInt(resetTime) * 1000): the date, named by its seconds, or
\* the invalid date when the time value is NaN or out of range
NewDateOfSeconds(n) ==
    IF n = NaN THEN InvalidDate
    ELSE IF LeqDigits(n.digits, MaxDateSeconds) THEN [seconds |-> n]
    ELSE InvalidDate

\* Date.prototype.toISOString: throws RangeError on the invalid date
toISOString(date) ==
    IF date = InvalidDate THEN RangeError ELSE ISOString(date.seconds)

\* new GitHubAPIError(message, status): the message is the literal text of
\* the code (head) and what the code appends to it (tail, Null for nothing)
GitHubAPIError(head, tail, status) ==
    [throws |-> "GitHubAPIError", message |-> [head |-> head, tail |-> tail],
     status |-> status]

MsgNoToken ==
    "GitHub token not found. Set GITHUB_TOKEN or GH_TOKEN environment variable."
MsgAuthFailed == "Authentication failed. Check your GitHub token."
MsgRateLimit == "GitHub API rate limit exceeded. Resets at "
MsgForbidden == "Access forbidden. Check token permissions."
MsgRequestFailed == "GitHub API request failed: "
MsgGraphQLErrors == "GraphQL errors: "
MsgNoData == "No data returned from GitHub API"

\* a string is falsy when it is empty; undefined and null are falsy
Falsy(v) == v \in {Undefined, Null, Str(<<>>)}

\* process.env.GITHUB_TOKEN || process.env.GH_TOKEN
TokenOf(env) == IF Falsy(env.GITHUB_TOKEN) THEN env.GH_TOKEN ELSE env.GITHUB_TOKEN

\* resolveToken(): the token, or the error it throws
resolveToken(env) ==
    IF Falsy(TokenOf(env))
    THEN GitHubAPIError(MsgNoToken, Null, Undefined)
    ELSE TokenOf(env)

\* errors.map((e) => e.message).join('; ')
RECURSIVE JoinMessages(_)
JoinMessages(errors) ==
    IF errors = <<>> THEN <<>>
    ELSE IF Len(errors) = 1 THEN <<Head(errors).message>>
    ELSE <<Head(errors).message, "; ">> \o JoinMessages(Tail(errors))

\* the statements after `await response.json()` (lines 154-166): json is the
\* parsed body: null, or an object with the fields data and errors
\* (Undefined for a field the body does not have)
handleJson(json) ==
    IF json = SyntaxError THEN SyntaxError
    ELSE IF json = Null THEN TypeError
    ELSE IF ~Falsy(json.errors) /\ Len(json.errors.array) > 0
         THEN GitHubAPIError(MsgGraphQLErrors,
                             [joined |-> JoinMessages(json.errors.array)],
                             Undefined)
    ELSE IF Falsy(json.data) THEN GitHubAPIError(MsgNoData, Null, Undefined)
    ELSE json.data

\* the 403 branch (lines 139-150)
handleForbidden(headers) ==
    IF headers.remaining = Str(<<"0">>)
    THEN LET resetTime == headers.reset
             resetDate == IF Falsy(resetTime) THEN Null
                          ELSE NewDateOfSeconds(parseInt(resetTime))
         IN IF resetDate = Null
            THEN GitHubAPIError(MsgRateLimit, Str("unknown"), [code |-> 403])
            ELSE LET iso == toISOString(resetDate)
                 IN IF iso = RangeError THEN RangeError
                    ELSE GitHubAPIError(MsgRateLimit, iso, [code |-> 403])
    ELSE GitHubAPIError(MsgForbidden, Null, [code |-> 403])

\* response.ok
Ok(status) == status \in 200..299

\* graphqlRequest from the response on: lines 134-166
handleResponse(response) ==
    IF ~Ok(response.status)
    THEN IF response.status = 401
         THEN GitHubAPIError(MsgAuthFailed, Null, [code |-> 401])
         ELSE IF response.status = 403
         THEN handleForbidden(response.headers)
         ELSE GitHubAPIError(MsgRequestFailed, Str(response.statusText),
                             [code |-> response.status])
    ELSE handleJson(JSONParse(response.body))

\* Inputs: the environment, and what the origin answers

Tokens == {Undefined, Str(<<>>), Str(<<"t">>)}

Environments == [GITHUB_TOKEN : Tokens, GH_TOKEN : Tokens]

statusTextOf ==
    [s \in {200, 204, 304, 401, 403, 404, 500} |->
        CASE s = 200 -> "OK"
          [] s = 204 -> "No Content"
          [] s = 304 -> "Not Modified"
          [] s = 401 -> "Unauthorized"
          [] s = 403 -> "Forbidden"
          [] s = 404 -> "Not Found"
          [] s = 500 -> "Internal Server Error"]

\* headers.get gives null for a header the response does not have
RemainingValues == {Null, Str(<<"0">>), Str(<<"0", "0">>), Str(<<"5", "9">>)}

ResetValues ==
    {Null, Str(<<>>), Str(<<"0">>), Str(<<"1", "7">>), Str(<<" ", "1", "7">>),
     Str(<<"1", "7", "s">>), Str(<<"s", "o", "o", "n">>),
     Str(MaxDateSeconds), Str(MaxDateSeconds \o <<"0">>)}

Payload == [repository |-> "veritas-civica"]

GraphQLErrorLists ==
    {Undefined, Null, [array |-> <<>>],
     [array |-> <<[message |-> "e1"]>>],
     [array |-> <<[message |-> "e1"], [message |-> "e2"]>>]}

ResponseBodies ==
    {NotJSON, [json |-> Null]}
    \cup {[json |-> [data |-> d, errors |-> e]] :
              d \in {Undefined, Null, Payload}, e \in GraphQLErrorLists}

\* a 403 answer carries any rate-limit headers and a 2xx answer any body;
\* the other answers are told apart by their status only
HttpResponses ==
    {[status |-> s, statusText |-> statusTextOf[s],
      headers |-> [remaining |-> rem, reset |-> res], body |-> b] :
        s \in DOMAIN statusTextOf, rem \in RemainingValues,
        res \in ResetValues, b \in ResponseBodies}

\* fetch rejects when no response arrives
FetchFailed == [throws |-> "TypeError", message |-> "fetch failed"]

InitRequest ==
    /\ files = EmptyMap
    /\ ledger = NoFile
    /\ clock = 0
    /\ call = NoCall
    /\ prev = [op |-> "none", dryRun |-> FALSE, failed |-> {}]
    /\ pre = [files |-> files, ledger |-> NoFile]
    /\ run \in [pc : {"resolveToken"}, env : Environments,
                 token : {Undefined}, fetches : {0}, response : {Undefined}]

\* line 122: resolveToken() throws, and the call ends, or gives the token
ResolveToken ==
    /\ run.pc = "resolveToken"
    /\ LET token == resolveToken(run.env)
       IN IF token \in Tokens
          THEN /\ run' = [run EXCEPT !.pc = "fetch", !.token = token]
               /\ UNCHANGED <<call, prev, pre>>
          ELSE /\ run' = [run EXCEPT !.pc = "returned"]
               /\ Returned([NoCall EXCEPT !.op = "graphqlRequest",
                                          !.result = token])
    /\ UNCHANGED <<files, ledger, clock>>

\* lines 124-132: the one fetch of the call; it rejects, and the call ends,
\* or resolves with the response of the origin
Fetch ==
    /\ run.pc = "fetch"
    /\ \/ /\ run' = [run EXCEPT !.pc = "returned", !.fetches = @ + 1,
                                !.response = FetchFailed]
          /\ Returned([NoCall EXCEPT !.op = "graphqlRequest",
                                     !.result = FetchFailed])
       \/ /\ \E response \in HttpResponses :
                 run' = [run EXCEPT !.pc = "response", !.fetches = @ + 1,
                                    !.response = response]
          /\ UNCHANGED <<call, prev, pre>>
    /\ UNCHANGED <<files, ledger, clock>>

\* lines 134-166: the call throws or returns json.data
HandleResponse ==
    /\ run.pc = "response"
    /\ run' = [run EXCEPT !.pc = "returned"]
    /\ Returned([NoCall EXCEPT !.op = "graphqlRequest",
                               !.result = handleResponse(run.response)])
    /\ UNCHANGED <<files, ledger, clock>>

NextRequest ==
    \/ ResolveToken
    \/ Fetch
    \/ HandleResponse

SpecRequest == InitRequest /\ [][NextRequest]_vars

\* no call fetches twice
FetchesAtMostOnce == run.fetches <= 1

-----------------------------------------------------------------------------
(* C21 *)

\* the failure kinds of the API client, told from what graphqlRequest threw
\* or returned
KindOf(result) ==
    IF "throws" \notin DOMAIN result THEN "Success"
    ELSE IF result.throws # "GitHubAPIError" THEN result.throws
    ELSE CASE result.message.head = MsgNoToken -> "AuthenticationMissing"
           [] result.message.head = MsgAuthFailed -> "Unauthorized"
           [] result.message.head = MsgRateLimit -> "RateLimited"
           [] result.message.head = MsgForbidden -> "Forbidden"
           [] result.message.head = MsgRequestFailed -> "TransportFailure"
           [] result.message.head = MsgGraphQLErrors -> "GraphQLError"
           [] result.message.head = MsgNoData -> "NoData"

\* graphqlRequest has ended after the origin answered
Answered ==
    /\ run.pc = "returned"
    /\ call.op = "graphqlRequest"
    /\ run.response \notin {Undefined, FetchFailed}

\* C21 as stated: on a 403 answer the call fails as RateLimited exactly when
\* X-RateLimit-Remaining is "0", whatever X-RateLimit-Reset holds, and as
\* Forbidden otherwise; the RateLimited message carries the reset time when
\* the reset header has a value and 'unknown' when it has none.
C21_RateLimitedOn403 ==
    (Answered /\ run.response.status = 403) =>
        IF run.response.headers.remaining = Str(<<"0">>)
        THEN /\ KindOf(call.result) = "RateLimited"
             /\ IF Falsy(run.response.headers.reset)
                THEN call.result.message.tail = Str("unknown")
                ELSE "iso" \in DOMAIN call.result.message.tail
        ELSE KindOf(call.result) = "Forbidden"

-----------------------------------------------------------------------------
(* C22 *)

\* the outcome C22 gives to a call, from the answer of the origin
OutcomeOf(response) ==
    CASE response.status = 401 -> "Unauthorized"
      [] response.status = 403 ->
             IF response.headers.remaining = Str(<<"0">>)
             THEN "RateLimited" ELSE "Forbidden"
      [] response.status \notin {401, 403} /\ ~Ok(response.status) ->
             "TransportFailure"
      [] Ok(response.status) ->
             LET json == JSONParse(response.body)
                 object == json \notin {SyntaxError, Null}
             IN IF object /\ "array" \in DOMAIN json.errors
                          /\ json.errors.array # <<>>
                THEN "GraphQLError"
                ELSE IF object /\ json.data = Payload
                THEN "Success"
                ELSE "NoData"

\* C22 as stated: a call with no usable token fails as AuthenticationMissing
\* without a network call; every other call makes exactly one network call
\* and, once the origin answered, ends in the one outcome that the status
\* and the body of the answer select, success returning data.
C22_ExactlyOneOutcome ==
    (run.pc = "returned" /\ call.op = "graphqlRequest") =>
        IF Falsy(TokenOf(run.env))
        THEN KindOf(call.result) = "AuthenticationMissing" /\ run.fetches = 0
        ELSE /\ run.fetches = 1
             /\ Answered =>
                    /\ KindOf(call.result) = OutcomeOf(run.response)
                    /\ KindOf(call.result) = "Success" =>
                           call.result = run.response.body.json.data

-----------------------------------------------------------------------------
(* Slug generation: generateSlug (retrievers/base.ts) *)

\* longest title handed to generateSlug
MaxTitle == 4

\* Characters of the titles.  A character outside ASCII is written by its
\* name: "e-acute" is U+00E9, "I-dot" is U+0130, "acute" and "dot-above" are
\* the combining marks U+0301 and U+0307, "sharp-s" is U+00DF.
TitleChars ==
    {"a", "B", "7", "-", " ", ".", "e-acute", "I-dot", "acute", "sharp-s"}

\* the combining marks U+0300..U+036F among the characters of the model
CombiningMarks == {"acute", "dot-above"}

\* canonical decomposition of one character
Decomposition(c) ==
    CASE c = "e-acute" -> <<"e", "acute">>
      [] c = "I-dot" -> <<"I", "dot-above">>
      [] OTHER -> <<c>>

\* String.prototype.normalize('NFD')
RECURSIVE normalizeNFD(_)
normalizeNFD(s) ==
    IF s = <<>> THEN <<>>
    ELSE Decomposition(Head(s)) \o normalizeNFD(Tail(s))

\* s.replace(/[̀-ͯ]/g, '')
stripCombiningMarks(s) == SelectSeq(s, LAMBDA c : c \notin CombiningMarks)

\* the characters [a-z0-9]
AlphaNumeric == {LowerCase[k] : k \in DOMAIN LowerCase} \cup Digits

\* s.replace(/[^a-z0-9]+/g, '-'): every maximal run of other characters
\* becomes one hyphen
RECURSIVE replaceNonAlphaNumeric(_)
replaceNonAlphaNumeric(s) ==
    IF s = <<>> THEN <<>>
    ELSE IF Head(s) \in AlphaNumeric
         THEN <<Head(s)>> \o replaceNonAlphaNumeric(Tail(s))
         ELSE IF Len(s) > 1 /\ s[2] \notin AlphaNumeric
              THEN replaceNonAlphaNumeric(Tail(s))
              ELSE <<"-">> \o replaceNonAlphaNumeric(Tail(s))

RECURSIVE dropLeadingHyphens(_)
dropLeadingHyphens(s) ==
    IF s # <<>> /\ Head(s) = "-" THEN dropLeadingHyphens(Tail(s)) ELSE s

RECURSIVE dropTrailingHyphens(_)
dropTrailingHyphens(s) ==
    IF s # <<>> /\ s[Len(s)] = "-"
    THEN dropTrailingHyphens(SubSeq(s, 1, Len(s) - 1))
    ELSE s

\* trimming that leaves the string as it is
trimHyphensAsIs(s) == s

\* s.replace(/^-+|-+$/g, '')
trimHyphens(s) == dropTrailingHyphens(dropLeadingHyphens(s))

\* s.replace(/-{2,}/g, '-')
RECURSIVE collapseHyphens(_)
collapseHyphens(s) ==
    IF s = <<>> THEN <<>>
    ELSE IF Head(s) = "-" /\ Len(s) > 1 /\ s[2] = "-"
         THEN collapseHyphens(Tail(s))
         ELSE <<Head(s)>> \o collapseHyphens(Tail(s))

\* the chain of generateSlug, one call per stage
SlugStages == <<"normalize", "stripMarks", "toLowerCase", "replace",
                "trim", "collapse">>

SlugStage(stage, s) ==
    CASE stage = "normalize" -> normalizeNFD(s)
      [] stage = "stripMarks" -> stripCombiningMarks(s)
      [] stage = "toLowerCase" -> ToLowerCase(s)
      [] stage = "replace" -> replaceNonAlphaNumeric(s)
      [] stage = "trim" -> trimHyphens(s)
      [] stage = "collapse" -> collapseHyphens(s)

RECURSIVE SlugFrom(_, _)
\* the stages from number k on, applied to s
SlugFrom(k, s) ==
    IF k > Len(SlugStages) THEN s
    ELSE SlugFrom(k + 1, SlugStage(SlugStages[k], s))

generateSlug(title) == SlugFrom(1, title)

TitlesUpTo(n) == UNION {[1..k -> TitleChars] : k \in 0..n}

InitSlug ==
    /\ files = EmptyMap
    /\ ledger = NoFile
    /\ clock = 0
    /\ call = NoCall
    /\ prev = [op |-> "none", dryRun |-> FALSE, failed |-> {}]
    /\ pre = [files |-> files, ledger |-> NoFile]
    /\ run \in [pc : {"slug"}, title : TitlesUpTo(MaxTitle), k : {1},
                value : {<<>>}]

\* the first call of the chain, on the title
SlugStart ==
    /\ run.pc = "slug"
    /\ run.k = 1
    /\ run' = [run EXCEPT !.k = 2,
                          !.value = SlugStage(SlugStages[1], run.title)]
    /\ UNCHANGED <<files, ledger, clock, call, prev, pre>>

\* each later call of the chain, on the result of the call before it
SlugStep ==
    /\ run.pc = "slug"
    /\ run.k \in 2..Len(SlugStages)
    /\ run' = [run EXCEPT !.k = @ + 1,
                          !.value = SlugStage(SlugStages[run.k], run.value)]
    /\ UNCHANGED <<files, ledger, clock, call, prev, pre>>

\* generateSlug returns the result of the last call
SlugReturn ==
    /\ run.pc = "slug"
    /\ run.k > Len(SlugStages)
    /\ run' = [run EXCEPT !.pc = "returned"]
    /\ Returned([NoCall EXCEPT !.op = "generateSlug", !.result = run.value])
    /\ UNCHANGED <<files, ledger, clock>>

NextSlug ==
    \/ SlugStart
    \/ SlugStep
    \/ SlugReturn

SpecSlug == InitSlug /\ [][NextSlug]_vars

\* the step-by-step chain computes generateSlug
SlugStepsAgree == run.pc = "returned" => call.result = generateSlug(run.title)

-----------------------------------------------------------------------------
(* C24 *)

\* the characters of a title that are neither letter a-z, digit nor accent
Separators == {"-", " ", ".", "sharp-s"}

\* the letter or digit a character of a title stands for: its base letter,
\* lowercased; nothing for a combining mark
BaseOf(c) ==
    CASE c = "a" -> <<"a">>
      [] c = "B" -> <<"b">>
      [] c = "7" -> <<"7">>
      [] c = "e-acute" -> <<"e">>
      [] c = "I-dot" -> <<"i">>
      [] c \in {"acute", "dot-above"} -> <<>>

RECURSIVE WordsOf(_, _, _)
\* the maximal runs of letters and digits of title, accents stripped and
\* letters lowercased: words so far, word in progress
WordsOf(title, words, word) ==
    IF title = <<>>
    THEN IF word = <<>> THEN words ELSE Append(words, word)
    ELSE IF Head(title) \in Separators
         THEN WordsOf(Tail(title),
                      IF word = <<>> THEN words ELSE Append(words, word), <<>>)
         ELSE WordsOf(Tail(title), words, word \o BaseOf(Head(title)))

RECURSIVE JoinWithHyphen(_)
JoinWithHyphen(words) ==
    IF words = <<>> THEN <<>>
    ELSE IF Len(words) = 1 THEN Head(words)
    ELSE Head(words) \o <<"-">> \o JoinWithHyphen(Tail(words))

-----------------------------------------------------------------------------
(* The normalizer: discussionToRawContent on a whole discussion *)

DiscussionTitles == {<<"a">>, <<"a", ".">>, <<"B", " ", "7">>, <<"e-acute">>}

DiscussionUrls ==
    <<"https://github.com/o/r/discussions/1", "https://github.com/o/r/discussions/2">>

\* the discussions of the origin: Discussion of graphql.ts, without id,
\* createdAt, category and author, which the normalizer does not read
Discussions ==
    {[number |-> n, title |-> t, body |-> b, url |-> DiscussionUrls[n],
      updatedAt |-> ISOString(u)] :
        n \in DOMAIN DiscussionUrls, t \in DiscussionTitles, b \in Bodies,
        u \in {0, 1}}

SourceConfigs ==
    {[name |-> "speculum-principum", type |-> "github-discussions"],
     [name |-> "test-source", type |-> "github-discussions"]}

TopicConfigs == [category : {CatPeople, CatCityStates}, slugFrom : {"title", "number"}]

\* SHA-256 of title followed by body, on the titles and bodies of the model
generateSHA256ChecksumOfTitleAndBody(title, body) ==
    CASE title = <<"a">> /\ body = "Roman Emperor" ->
           "632363b4567b5bf230d9ee2eb25abf19a02f33a8d887234030f74ca896eb2a54"
      [] title = <<"a">> /\ body = "Stoic philosopher" ->
           "30e5daf35884798d65d617bd3bb5fbe58d2f7c3520da40ff4893166df94b84c3"
      [] title = <<"a", ".">> /\ body = "Roman Emperor" ->
           "d4c91513c5597635019ad2c088c9002f8d2d586e6a81250b6110a51c26342232"
      [] title = <<"a", ".">> /\ body = "Stoic philosopher" ->
           "94f1f0bb068412c10ed3ea8ab0d8521edf1f2ba55ba2d6e5966b53b9381cf6e2"
      [] title = <<"B", " ", "7">> /\ body = "Roman Emperor" ->
           "fdd40ccda5740b456a87f21461d2c4bbc07c8d1e6e03c6f0af41bbadb6959564"
      [] title = <<"B", " ", "7">> /\ body = "Stoic philosopher" ->
           "70dfd3cd1209dc38d6bcbf7608ca4ae6945dbce211eed7fa7fa40f05766b04b1"
      [] title = <<"e-acute">> /\ body = "Roman Emperor" ->
           "78c680ea05ff36990d6ba65366100094d43f45f1a76bc79617cc62f94b88810b"
      [] title = <<"e-acute">> /\ body = "Stoic philosopher" ->
           "a33edf086593025b8bf0cc11535545781d8b692f79210c8ecd32e2158eb1b59d"

\* discussionToRawContentOf with the checksum taken over title and body
discussionToRawContentOfTitleAndBody(discussion, source, topic, now) ==
    [source |-> source.name, sourceType |-> source.type,
     category |-> topic.category, title |-> discussion.title,
     slug |-> generateSlug(discussion.title),
     discussionNumber |-> discussion.number, discussionUrl |-> discussion.url,
     retrievedAt |-> ISOString(now), updatedAt |-> discussion.updatedAt,
     checksum |-> generateSHA256ChecksumOfTitleAndBody(discussion.title,
                                                        discussion.body),
     body |-> discussion.body]

\* discussionToRawContent(discussion, source, topic) at time now, with every
\* field of RawContent; both branches of slugSource are discussion.title
discussionToRawContentOf(discussion, source, topic, now) ==
    LET slugSource == IF topic.slugFrom = "title"
                      THEN discussion.title ELSE discussion.title
    IN [source |-> source.name, sourceType |-> source.type,
        category |-> topic.category, title |-> discussion.title,
        slug |-> generateSlug(slugSource),
        discussionNumber |-> discussion.number,
        discussionUrl |-> discussion.url,
        retrievedAt |-> ISOString(now), updatedAt |-> discussion.updatedAt,
        checksum |-> generateSHA256Checksum(discussion.body),
        body |-> discussion.body]

InitNormalize ==
    /\ files = EmptyMap
    /\ ledger = NoFile
    /\ clock = 0
    /\ call = NoCall
    /\ prev = [op |-> "none", dryRun |-> FALSE, failed |-> {}]
    /\ pre = [files |-> files, ledger |-> NoFile]
    /\ run = [pc |-> "normalize", items |-> <<>>]

\* a discussion is normalized, for some source and topic, at the time of the
\* clock
Normalize ==
    /\ run.pc = "normalize"
    /\ Len(run.items) < 2
    /\ \E discussion \in Discussions, source \in SourceConfigs,
          topic \in TopicConfigs :
           run' = [run EXCEPT !.items = Append(@,
                      [discussion |-> discussion,
                       content |-> discussionToRawContentOf(discussion, source,
                                                            topic, clock)])]
    /\ clock' = clock + 1
    /\ UNCHANGED <<files, ledger, call, prev, pre>>

\* the first record is written to the empty storage
WriteFirst ==
    /\ run.pc = "normalize"
    /\ Len(run.items) = 2
    /\ files' = writeContent(files, run.items[1].content)
    /\ run' = [run EXCEPT !.pc = "written"]
    /\ UNCHANGED <<ledger, clock, call, prev, pre>>

\* the second record is diffed against the storage holding the first
DiffSecond ==
    /\ run.pc = "written"
    /\ run' = [run EXCEPT !.pc = "returned"]
    /\ Returned([NoCall EXCEPT
           !.op = "diffContent",
           !.contents = <<run.items[2].content>>,
           !.category = run.items[2].content.category,
           !.result = diffContent(files, <<run.items[2].content>>,
                                  run.items[2].content.category)])
    /\ UNCHANGED <<files, ledger, clock>>

NextNormalize ==
    \/ Normalize
    \/ WriteFirst
    \/ DiffSecond

SpecNormalize == InitNormalize /\ [][NextNormalize]_vars

-----------------------------------------------------------------------------
(* C23 *)

\* two discussions have been normalized and their bodies are equal
SameBody ==
    /\ Len(run.items) = 2
    /\ run.items[1].discussion.body = run.items[2].discussion.body

\* C23: two discussions with equal body get the same checksum from the
\* normalizer, whatever their title, number, url and timestamps, the source,
\* the topic and the time of the call, and so does one discussion normalized
\* twice; diffContent never reports as updated a record whose body is the
\* body of the record the storage holds.
C23_ChecksumOfBodyOnly ==
    SameBody =>
        /\ run.items[1].content.checksum = run.items[2].content.checksum
        /\ run.pc = "returned" => call.result.updated = <<>>

\* "a." was diffed against the stored "a" of the same topic and body, and
\* was reported unchanged
C23_Witness ==
    /\ SameBody
    /\ run.pc = "returned"
    /\ run.items[1].discussion.title = <<"a">>
    /\ run.items[2].discussion.title = <<"a", ".">>
    /\ run.items[1].content.category = run.items[2].content.category
    /\ run.items[1].content.retrievedAt # run.items[2].content.retrievedAt
    /\ Len(call.result.unchanged) = 1

-----------------------------------------------------------------------------
(* syncContent on a storage with a file that does not parse:               *)
(* specification SpecReadFailure                                           *)

\* what readContent gives diffContent for one record: the stored record,
\* null, or the error it throws
readForDiff(fs, content) == readContent(fs, content.category, content.slug)

\* every read diffContent makes for these records returns
Readable(fs, contents) ==
    \A k \in 1..Len(contents) : readForDiff(fs, contents[k]) # SyntaxError

\* the storage holds some of the seed records and one file that is no JSON
InitReadFailure ==
    /\ \E S \in SUBSET SeedRecords,
          damaged \in {<<CatPeople, "seneca">>, <<CatCityStates, "marcus-aurelius">>} :
           files = [filePath \in DOMAIN StorageOf(S)
                                 \cup {getFilePath(damaged[1], damaged[2])} |->
                       IF filePath = getFilePath(damaged[1], damaged[2])
                       THEN NotJSON ELSE StorageOf(S)[filePath]]
    /\ ledger = NoFile
    /\ clock = 0
    /\ call = NoCall
    /\ prev = [op |-> "none", dryRun |-> FALSE, failed |-> {}]
    /\ pre = [files |-> files, ledger |-> NoFile]
    /\ run = NoRun

\* storage.syncContent(contents, dryRun) is called and groups the batch
StartSyncOnDamaged ==
    /\ run.pc = "idle"
    /\ \E contents \in Batches, dryRun \in BOOLEAN :
           \E failing \in (IF Readable(files, contents)
                           THEN Failing(contents, dryRun) ELSE {{}}) :
               run' = StartedRun(contents, dryRun, failing)
    /\ pre' = [files |-> files, ledger |-> ledger]
    /\ UNCHANGED <<files, ledger, clock, call, prev>>

\* diffContent of one category, every read of which returns
DiffStepReturns ==
    /\ run.pc = "diff"
    /\ run.g <= Len(run.byCategory)
    /\ Readable(files, run.byCategory[run.g].contents)
    /\ DiffStep

\* diffContent of one category throws what readContent threw: syncContent
\* has no catch around it and rejects
DiffStepThrows ==
    /\ run.pc = "diff"
    /\ run.g <= Len(run.byCategory)
    /\ ~Readable(files, run.byCategory[run.g].contents)
    /\ run' = [run EXCEPT !.pc = "thrown"]
    /\ call' = [NoCall EXCEPT !.op = "syncContent", !.contents = run.contents,
                              !.dryRun = run.dryRun, !.result = SyntaxError]
    /\ prev' = [op |-> call.op, dryRun |-> call.dryRun, failed |-> call.failed]
    /\ UNCHANGED <<files, ledger, clock, pre>>

NextReadFailure ==
    \/ StartSyncOnDamaged
    \/ DiffStepReturns
    \/ DiffStepThrows
    \/ DiffDone
    \/ WriteStep
    \/ WriteDone
    \/ ReturnSync

SpecReadFailure == InitReadFailure /\ [][NextReadFailure]_vars

-----------------------------------------------------------------------------
(* C27 *)

\* the key of some record of the batch holds a file that is no JSON
DamagedKeyIn(fs, contents) ==
    \E k \in 1..Len(contents) :
        /\ KeyOf(contents[k]) \in DOMAIN fs
        /\ fs[KeyOf(contents[k])] = NotJSON

\* C27: while syncContent classifies the batch the storage is as it was
\* before the call; when the file at the key of a record of the batch does
\* not parse, the call ends by throwing the error of the read, returns no
\* report, has attempted no write and leaves the storage as it was.
C27_ReadFailureWritesNothing ==
    /\ run.pc = "diff" => files = pre.files
    /\ (run.pc \in {"write", "return", "returned", "thrown"}
            /\ DamagedKeyIn(pre.files, run.contents)) =>
           /\ run.pc = "thrown"
           /\ call.result = SyntaxError
           /\ run.st.written = <<>>
           /\ run.st.failed = {}
           /\ files = pre.files

\* the call threw on the second record of a live batch, after classifying
\* the first, in another category, as created
C27_Witness ==
    /\ run.pc = "thrown"
    /\ ~run.dryRun
    /\ Len(run.contents) = 2
    /\ Len(run.st.created) = 1
    /\ ~DamagedKeyIn(pre.files, <<run.contents[1]>>)
    /\ DamagedKeyIn(pre.files, <<run.contents[2]>>)
    /\ files = pre.files

-----------------------------------------------------------------------------
(* C28 *)

\* C28 as stated: the report of every syncContent call counts every record
\* of the batch once: |created| + |updated| + |unchanged| + |errors| is the
\* number of records of the batch (here for batches without repeated keys).
C28_EveryRecordReportedOnce ==
    (SyncCalled /\ DistinctKeys(call.contents)) =>
        Len(call.result.created) + Len(call.result.updated)
            + Len(call.result.unchanged) + Len(call.result.errors)
          = Len(call.contents)

-----------------------------------------------------------------------------
(* C29 *)

\* no two records of the batch have the same slug
DistinctSlugs(contents) ==
    \A i, j \in 1..Len(contents) : i # j => contents[i].slug # contents[j].slug

\* C29 as stated: after a live sync of a source, the ledger entry of the
\* source has lastSyncCount equal to the number of records retrieved and,
\* for every retrieved record, checksums[slug] equal to the checksum of the
\* record stored at the record's (category, slug) (here for a retrieval of
\* at least one record, without repeated slugs).
C29_LedgerAgreesWithStorage ==
    (call.op = "sync" /\ ~call.dryRun /\ Len(call.contents) > 0
        /\ DistinctSlugs(call.contents)) =>
        LET entry == getSourceSyncState(ledger, call.source)
        IN /\ entry.lastSyncCount = Len(call.contents)
           /\ \A k \in 1..Len(call.contents) :
                  LET content == call.contents[k]
                      stored == readContent(files, content.category, content.slug)
                  IN /\ stored # Null
                     /\ content.slug \in DOMAIN entry.checksums
                     /\ entry.checksums[content.slug] = stored.checksum

-----------------------------------------------------------------------------
(* GitHubDiscussionsRetriever.retrieve, followed call by call:              *)
(* specification SpecRetrieveTopic                                         *)

\* the discussion of number k at the origin
DiscussionNumbered(k) ==
    [number |-> k,
     title |-> IF k % 2 = 1 THEN <<"a">> ELSE <<"B", " ", "7">>,
     body |-> IF k % 2 = 1 THEN "Roman Emperor" ELSE "Stoic philosopher",
     url |-> [discussion |-> k], updatedAt |-> ISOString(0)]

\* the source and the topic of the call
RetrievedSource == [name |-> "speculum-principum", type |-> "github-discussions"]
RetrievedTopic == [category |-> CatPeople, slugFrom |-> "title"]

\* What the call meets: whether a token is set; what the category cache of
\* the retriever holds for the topic ("empty", "category" or "null"); what
\* the category lookup gives ("found", "absent" or "fails"); the number n of
\* discussions of the category; the number failAt of the page request that
\* fails (0: none); the numbers of the discussions whose conversion throws.
RetrieveOrigins ==
    [token : BOOLEAN, cache : {"empty", "category", "null"},
     category : {"found", "absent", "fails"},
     n : {0, 1, 2, PageCap + 1, PageCap + 50}, failAt : 0..2,
     convertFails : SUBSET {1, 2}]

ErrNotFound == [text |-> "Category not found in repository", category |-> CatPeople]
ErrRetrievalFailed == [text |-> "Retrieval failed: "]
ErrConvert(number) == [text |-> "Failed to convert discussion #", number |-> number]

\* the result retrieve returns
RetrievalResult(items, errors) ==
    [topic |-> RetrievedTopic, items |-> items, count |-> Len(items),
     errors |-> errors]

\* one conversion, a failure of which drops the items converted so far
convertOneLosingItems(number, fails, now, acc) ==
    IF number \in fails
    THEN [items |-> <<>>, errors |-> Append(acc.errors, ErrConvert(number))]
    ELSE [acc EXCEPT !.items = Append(@,
             discussionToRawContentOf(DiscussionNumbered(number),
                 RetrievedSource, RetrievedTopic, now))]

\* one pass of the loop over discussions (lines 60-72): the record is
\* pushed to items, or the conversion throws and an error is pushed
convertOne(number, fails, now, acc) ==
    IF number \in fails
    THEN [acc EXCEPT !.errors = Append(@, ErrConvert(number))]
    ELSE [acc EXCEPT !.items = Append(@,
             discussionToRawContentOf(DiscussionNumbered(number),
                 RetrievedSource, RetrievedTopic, now))]

InitRetrieveTopic ==
    /\ files = EmptyMap
    /\ ledger = NoFile
    /\ clock = 0
    /\ call = NoCall
    /\ prev = [op |-> "none", dryRun |-> FALSE, failed |-> {}]
    /\ pre = [files |-> files, ledger |-> NoFile]
    /\ run \in [pc : {"getCategory"}, origin : RetrieveOrigins,
                category : {Undefined}, allDiscussions : {<<>>},
                cursor : {Undefined}, hasMore : {TRUE}, requests : {0},
                i : {1}, items : {<<>>}, errors : {<<>>}]

\* line 40: getCategory answers from the cache or looks the category up;
\* a lookup without token, or one the API fails, throws into the catch of
\* line 74; a category that is null makes retrieve return (lines 42-51)
GetCategory ==
    /\ run.pc = "getCategory"
    /\ LET origin == run.origin
           lookedUp == origin.cache = "empty"
           thrown == lookedUp /\ (~origin.token \/ origin.category = "fails")
           category == IF origin.cache = "category" THEN "found"
                       ELSE IF origin.cache = "null" THEN "absent"
                       ELSE origin.category
       IN  IF thrown
           THEN run' = [run EXCEPT !.pc = "return",
                                   !.errors = Append(@, ErrRetrievalFailed)]
           ELSE IF category = "absent"
           THEN run' = [run EXCEPT !.pc = "returnNotFound",
                                   !.category = Null,
                                   !.errors = Append(@, ErrNotFound)]
           ELSE run' = [run EXCEPT !.pc = "list", !.category = [id |-> "c1"]]
    /\ UNCHANGED <<files, ledger, clock, call, prev, pre>>

\* lines 42-51: the early return for a category that was not found
ReturnNotFound ==
    /\ run.pc = "returnNotFound"
    /\ run' = [run EXCEPT !.pc = "returned"]
    /\ Returned([NoCall EXCEPT !.op = "retrieve",
                               !.result = RetrievalResult(<<>>, run.errors)])
    /\ UNCHANGED <<files, ledger, clock>>

\* lines 54-57: one pass of the loop of listAllDiscussions; a request without
\* token, or one the API fails, throws out of listAllDiscussions into the
\* catch of line 74, and what the passes before it collected is dropped
RetrieveListPage ==
    /\ run.pc = "list"
    /\ run.hasMore
    /\ Len(run.allDiscussions) < DefaultMaxItems
    /\ IF ~run.origin.token \/ run.origin.failAt = run.requests + 1
       THEN run' = [run EXCEPT !.pc = "return", !.requests = @ + 1,
                               !.errors = Append(@, ErrRetrievalFailed)]
       ELSE \E page \in listDiscussions([kind |-> "honours", n |-> run.origin.n],
                            pageSize(DefaultMaxItems, Len(run.allDiscussions)),
                            run.cursor, Len(run.allDiscussions)) :
                run' = [run EXCEPT
                    !.requests = @ + 1,
                    !.allDiscussions = @ \o page.response.nodes,
                    !.hasMore = page.response.pageInfo.hasNextPage,
                    !.cursor = IF page.response.pageInfo.endCursor = Null
                               THEN Undefined
                               ELSE page.response.pageInfo.endCursor]
    /\ UNCHANGED <<files, ledger, clock, call, prev, pre>>

\* line 54: listAllDiscussions returns what it collected
ListReturns ==
    /\ run.pc = "list"
    /\ ~(run.hasMore /\ Len(run.allDiscussions) < DefaultMaxItems)
    /\ run' = [run EXCEPT !.pc = "convert"]
    /\ UNCHANGED <<files, ledger, clock, call, prev, pre>>

\* lines 60-72: one pass of the loop over discussions
ConvertDiscussion ==
    /\ run.pc = "convert"
    /\ run.i <= Len(run.allDiscussions)
    /\ \E acc \in {convertOne(run.allDiscussions[run.i],
                              run.origin.convertFails, clock,
                              [items |-> run.items, errors |-> run.errors])} :
           run' = [run EXCEPT !.i = @ + 1, !.items = acc.items,
                              !.errors = acc.errors]
    /\ UNCHANGED <<files, ledger, clock, call, prev, pre>>

\* the loop over discussions is over
ConvertDone ==
    /\ run.pc = "convert"
    /\ run.i > Len(run.allDiscussions)
    /\ run' = [run EXCEPT !.pc = "return"]
    /\ UNCHANGED <<files, ledger, clock, call, prev, pre>>

\* lines 79-85
ReturnRetrieve ==
    /\ run.pc = "return"
    /\ run' = [run EXCEPT !.pc = "returned"]
    /\ Returned([NoCall EXCEPT !.op = "retrieve",
                               !.result = RetrievalResult(run.items, run.errors)])
    /\ UNCHANGED <<files, ledger, clock>>

NextRetrieveTopic ==
    \/ GetCategory
    \/ ReturnNotFound
    \/ RetrieveListPage
    \/ ListReturns
    \/ ConvertDiscussion
    \/ ConvertDone
    \/ ReturnRetrieve

SpecRetrieveTopic == InitRetrieveTopic /\ [][NextRetrieveTopic]_vars

-----------------------------------------------------------------------------
(* C26 *)

\* the number of page requests a category of n discussions takes
PagesOf(n) == IF n = 0 THEN 1 ELSE (n + PageCap - 1) \div PageCap

\* the call meets a missing token, a category that is not found, or an API
\* failure in the category lookup or in a page request it makes
RetrievalFails(origin) ==
    \/ ~origin.token
    \/ origin.cache = "null"
    \/ origin.cache = "empty" /\ origin.category \in {"absent", "fails"}
    \/ origin.failAt \in 1..PagesOf(origin.n)

\* C26: retrieve always resolves with a result whose count is the length of
\* items; a missing token, a category not found, or a failing request gives
\* items = [] and at least one error, the items of earlier pages included;
\* otherwise a discussion whose conversion fails adds one error and every
\* other discussion is in items, in order.
C26_RetrieveNeverRejects ==
    (run.pc = "returned" /\ call.op = "retrieve") =>
        /\ "throws" \notin DOMAIN call.result
        /\ call.result.count = Len(call.result.items)
        /\ IF RetrievalFails(run.origin)
           THEN call.result.items = <<>> /\ Len(call.result.errors) > 0
           ELSE LET converted ==
                        SelectSeq([k \in 1..run.origin.n |-> k],
                                  LAMBDA k : k \notin run.origin.convertFails)
                IN /\ Len(call.result.items) = Len(converted)
                   /\ \A j \in 1..Len(converted) :
                          call.result.items[j].discussionNumber = converted[j]
                   /\ Len(call.result.errors) =
                          Cardinality(run.origin.convertFails
                                          \cap 1..run.origin.n)

\* the second page request failed: the 100 discussions of the first page
\* are not in the result
C26_Witness ==
    /\ run.pc = "returned"
    /\ call.op = "retrieve"
    /\ run.origin.failAt = 2
    /\ Len(run.allDiscussions) = PageCap
    /\ call.result.items = <<>>
    /\ call.result.errors = <<ErrRetrievalFailed>>

-----------------------------------------------------------------------------
(* The sync command followed await by await: specification SpecCommand     *)
(* (cli.ts sync; the loop over sources of ciSync is the same)             *)

\* the sources the command runs over: the first has one or two topics, the
\* second one topic and a type that has a retriever or has none
CommandSources ==
    {<<[name |-> "speculum-principum", type |-> "github-discussions",
        topics |-> topics],
       [name |-> "test-source", type |-> type,
        topics |-> <<[category |-> CatPeople]>>]>> :
        topics \in {<<[category |-> CatPeople]>>,
                    <<[category |-> CatPeople], [category |-> CatCityStates]>>},
        type \in {"github-discussions", "rss"}}

\* args.topic: not given, or a category name in any case
TopicArgs == {Undefined, Str(<<"p", "e", "o", "p", "l", "e">>)}

\* source.topics, or the topics whose category is args.topic up to case
filterTopics(source, topicArg) ==
    IF topicArg = Undefined THEN source.topics
    ELSE SelectSeq(source.topics,
             LAMBDA topic : ToLowerCase(topic.category) = ToLowerCase(topicArg.str))

\* what retriever.retrieve may resolve with for a topic: one record or none,
\* with or without an error
TopicResults(topic) ==
    {[items |-> items, count |-> Len(items), errors |-> errors] :
        items \in {<<>>, <<RawContent(topic.category, "marcus-aurelius",
                                      "Marcus Aurelius", "Roman Emperor")>>},
        errors \in {<<>>, <<ErrRetrievalFailed>>}}

\* the error getRetriever throws for a type without retriever
ErrNoRetriever == [throws |-> "Error", message |-> "No retriever available for source type"]

\* the SyncResult pushed for a source (duration and syncedAt left out)
SyncResult(source, success, report) ==
    [source |-> source.name, success |-> success, created |-> report.created,
     updated |-> report.updated, unchanged |-> report.unchanged,
     errors |-> report.errors]

EmptyReport ==
    [created |-> <<>>, updated |-> <<>>, unchanged |-> <<>>, errors |-> <<>>]

\* the retrievals that start in pass t of the loop over topics, all at once
topicsStartedTogether(topics, t) == t..Len(topics)

\* the retrievals that start in pass t of the loop over topics: the call of
\* that pass, awaited before the next pass
topicsStarted(topics, t) == {t}

\* an operation of the run: a retrieval, syncContent or the ledger update
Operation(op, s, t) == [op |-> op, s |-> s, t |-> t]

InitCommand ==
    /\ files = EmptyMap
    /\ ledger = NoFile
    /\ clock = 0
    /\ call = NoCall
    /\ prev = [op |-> "none", dryRun |-> FALSE, failed |-> {}]
    /\ pre = [files |-> files, ledger |-> NoFile]
    /\ run \in [pc : {"source"}, sources : CommandSources, topicArg : TopicArgs,
                dryRun : BOOLEAN, s : {1}, t : {1}, topics : {<<>>},
                allContent : {<<>>}, retrievalErrors : {<<>>},
                failing : {{}}, report : {EmptyReport},
                inFlight : {{}}, log : {<<>>}, results : {<<>>},
                outcomes : {<<>>}]

\* lines 238-258: the loop takes the next source; getRetriever throws into
\* the catch of line 350, or the topics are filtered and, if none is left,
\* the loop continues
EnterSource ==
    /\ run.pc = "source"
    /\ run.s <= Len(run.sources)
    /\ LET source == run.sources[run.s]
           topics == filterTopics(source, run.topicArg)
       IN  IF source.type # "github-discussions"
           THEN run' = [run EXCEPT
                   !.s = @ + 1,
                   !.results = Append(@, SyncResult(source, FALSE,
                       [EmptyReport EXCEPT !.errors =
                           <<[slug |-> "", title |-> "", category |-> "",
                              status |-> "error",
                              error |-> ErrNoRetriever.message]>>])),
                   !.outcomes = Append(@, [s |-> run.s, retrievalErrors |-> <<>>,
                                           writeErrors |-> <<>>,
                                           thrown |-> TRUE])]
           ELSE IF topics = <<>>
           THEN run' = [run EXCEPT !.s = @ + 1]
           ELSE run' = [run EXCEPT !.pc = "topics", !.t = 1, !.topics = topics,
                                   !.allContent = <<>>,
                                   !.retrievalErrors = <<>>]
    /\ UNCHANGED <<files, ledger, clock, call, prev, pre>>

\* line 263: retriever.retrieve(source, topic) is called
StartRetrieve ==
    /\ run.pc = "topics"
    /\ run.t <= Len(run.topics)
    /\ run' = [run EXCEPT
           !.pc = "retrieving",
           !.inFlight = @ \cup {Operation("retrieve", run.s, t) :
                                   t \in topicsStarted(run.topics, run.t)},
           !.log = Append(@, [at |-> "start",
                              what |-> Operation("retrieve", run.s, run.t)])]
    /\ UNCHANGED <<files, ledger, clock, call, prev, pre>>

\* lines 263-272: the retrieval resolves; its errors are printed as warnings
\* and its items are appended to allContent
FinishRetrieve ==
    /\ run.pc = "retrieving"
    /\ \E result \in TopicResults(run.topics[run.t]) :
           run' = [run EXCEPT
               !.pc = "topics", !.t = @ + 1,
               !.allContent = @ \o result.items,
               !.retrievalErrors = @ \o result.errors,
               !.inFlight = @ \ {Operation("retrieve", run.s, run.t)},
               !.log = Append(@, [at |-> "end",
                                  what |-> Operation("retrieve", run.s, run.t)])]
    /\ UNCHANGED <<files, ledger, clock, call, prev, pre>>

\* lines 336-347: nothing was retrieved; the source is pushed as a success
NoContentRetrieved ==
    /\ run.pc = "topics"
    /\ run.t > Len(run.topics)
    /\ run.allContent = <<>>
    /\ run' = [run EXCEPT
           !.pc = "source", !.s = @ + 1,
           !.results = Append(@, SyncResult(run.sources[run.s], TRUE, EmptyReport)),
           !.outcomes = Append(@, [s |-> run.s,
                                   retrievalErrors |-> run.retrievalErrors,
                                   writeErrors |-> <<>>, thrown |-> FALSE])]
    /\ UNCHANGED <<files, ledger, clock, call, prev, pre>>

\* line 283: storage.syncContent(allContent, args.dryRun) is called
StartSyncContent ==
    /\ run.pc = "topics"
    /\ run.t > Len(run.topics)
    /\ run.allContent # <<>>
    /\ \E failing \in Failing(run.allContent, run.dryRun) :
           run' = [run EXCEPT
               !.pc = "syncing", !.failing = failing,
               !.inFlight = @ \cup {Operation("syncContent", run.s, 0)},
               !.log = Append(@, [at |-> "start",
                                  what |-> Operation("syncContent", run.s, 0)])]
    /\ UNCHANGED <<files, ledger, clock, call, prev, pre>>

\* line 283: syncContent resolves with its report
FinishSyncContent ==
    /\ run.pc = "syncing"
    /\ \E st \in {syncContent(files, run.allContent, run.dryRun, run.failing)} :
           /\ files' = st.files
           /\ run' = [run EXCEPT
                  !.pc = IF run.dryRun THEN "push" ELSE "ledger",
                  !.report = Report(st),
                  !.inFlight = @ \ {Operation("syncContent", run.s, 0)},
                  !.log = Append(@, [at |-> "end",
                                     what |-> Operation("syncContent", run.s, 0)])]
    /\ UNCHANGED <<ledger, clock, call, prev, pre>>

\* lines 313-319: the checksums are collected and updateSourceSyncState is
\* called
StartLedgerUpdate ==
    /\ run.pc = "ledger"
    /\ run' = [run EXCEPT
           !.pc = "ledgerUpdate",
           !.inFlight = @ \cup {Operation("updateSourceSyncState", run.s, 0)},
           !.log = Append(@, [at |-> "start",
                      what |-> Operation("updateSourceSyncState", run.s, 0)])]
    /\ clock' = clock + 1
    /\ UNCHANGED <<files, ledger, call, prev, pre>>

\* lines 319-323: updateSourceSyncState resolves
FinishLedgerUpdate ==
    /\ run.pc = "ledgerUpdate"
    /\ ledger' = updateSourceSyncState(ledger, run.sources[run.s].name,
                     [lastSync |-> ISOString(clock),
                      checksums |-> checksumsOf(run.allContent),
                      lastSyncCount |-> Len(run.allContent)], clock + 1)
    /\ clock' = clock + 1
    /\ run' = [run EXCEPT
           !.pc = "push",
           !.inFlight = @ \ {Operation("updateSourceSyncState", run.s, 0)},
           !.log = Append(@, [at |-> "end",
                      what |-> Operation("updateSourceSyncState", run.s, 0)])]
    /\ UNCHANGED <<files, call, prev, pre>>

\* lines 326-335: the SyncResult of the source is pushed
PushResult ==
    /\ run.pc = "push"
    /\ run' = [run EXCEPT
           !.pc = "source", !.s = @ + 1,
           !.results = Append(@, SyncResult(run.sources[run.s],
                                     Len(run.report.errors) = 0, run.report)),
           !.outcomes = Append(@, [s |-> run.s,
                                   retrievalErrors |-> run.retrievalErrors,
                                   writeErrors |-> run.report.errors,
                                   thrown |-> FALSE])]
    /\ UNCHANGED <<files, ledger, clock, call, prev, pre>>

\* the loop over sources is over
CommandDone ==
    /\ run.pc = "source"
    /\ run.s > Len(run.sources)
    /\ run' = [run EXCEPT !.pc = "done"]
    /\ Returned([NoCall EXCEPT !.op = "command", !.dryRun = run.dryRun,
                               !.result = run.results])
    /\ UNCHANGED <<files, ledger, clock>>

NextCommand ==
    \/ EnterSource
    \/ StartRetrieve
    \/ FinishRetrieve
    \/ NoContentRetrieved
    \/ StartSyncContent
    \/ FinishSyncContent
    \/ StartLedgerUpdate
    \/ FinishLedgerUpdate
    \/ PushResult
    \/ CommandDone

SpecCommand == InitCommand /\ [][NextCommand]_vars


\* the place of an operation in the order of the run: source, then
\* retrievals before syncContent before the ledger update, then topic
Phase(op) ==
    CASE op = "retrieve" -> 1
      [] op = "syncContent" -> 2
      [] op = "updateSourceSyncState" -> 3

Before(a, b) ==
    \/ a.s < b.s
    \/ a.s = b.s /\ Phase(a.op) < Phase(b.op)
    \/ a.s = b.s /\ Phase(a.op) = Phase(b.op) /\ a.t < b.t

StartedAt(log, i) == log[i].at = "start"

\* every operation that started has ended before the next one starts
OneAtATime(log) ==
    \A i \in 1..Len(log) :
        IF StartedAt(log, i)
        THEN i = Len(log) \/ log[i + 1] = [at |-> "end", what |-> log[i].what]
        ELSE i > 1 /\ log[i - 1] = [at |-> "start", what |-> log[i].what]

\* operations start in the order of the run
InRunOrder(log) ==
    \A i, j \in 1..Len(log) :
        (i < j /\ StartedAt(log, i) /\ StartedAt(log, j))
            => Before(log[i].what, log[j].what)

\* when syncContent of a source starts, the retrieval of each of its topics
\* has ended
AllTopicsFirst(log, topics, s) ==
    \A i \in 1..Len(log) :
        (StartedAt(log, i) /\ log[i].what = Operation("syncContent", s, 0))
            => \A t \in 1..Len(topics) :
                   \E k \in 1..(i - 1) :
                       log[k] = [at |-> "end",
                                 what |-> Operation("retrieve", s, t)]

\* C25: the run is strictly sequential: at most one operation is in flight
\* at any time; for each source the retrievals of its topics run in the
\* configured order and all end before its synchronization starts, and the
\* ledger update of a source ends before the retrieval of the next source
\* starts.
C25_StrictlySequential ==
    ("log" \in DOMAIN run) =>
        /\ Cardinality(run.inFlight) <= 1
        /\ OneAtATime(run.log)
        /\ InRunOrder(run.log)
        /\ (run.pc \in {"syncing", "ledger", "ledgerUpdate", "push"}
                => AllTopicsFirst(run.log, run.topics, run.s))

\* a finished run over two sources, the first with two topics, in which both
\* sources were synchronized and recorded in the ledger
C25_Witness ==
    /\ "log" \in DOMAIN run
    /\ run.pc = "done"
    /\ Len(run.log) = 14
    /\ \E i, j \in 1..Len(run.log) :
           /\ i < j
           /\ run.log[i] = [at |-> "end",
                            what |-> Operation("updateSourceSyncState", 1, 0)]
           /\ run.log[j] = [at |-> "start",
                            what |-> Operation("retrieve", 2, 1)]

\* C30: the SyncResult of a source has success = TRUE exactly when nothing
\* went wrong for that source: no retrieval error, no write error and no
\* exception.
C30_SuccessIffNoError ==
    ("results" \in DOMAIN run) =>
        \A k \in 1..Len(run.results) :
            run.results[k].success
                <=> /\ run.outcomes[k].retrievalErrors = <<>>
                    /\ run.outcomes[k].writeErrors = <<>>
                    /\ ~run.outcomes[k].thrown

====
